---- MODULE Spec2Model ----
(***************************************************************************)
(* IPO scraping pipeline of server/services/scraper.ts: the listings       *)
(* extractor (scrapeMainboardIPOs), the GMP extractor (scrapeGmpData) and  *)
(* the orchestrator (scrapeAndTransformIPOs) that runs both concurrently   *)
(* and joins their results by symbol.                                      *)
(*                                                                         *)
(* Text is a sequence of one-character strings, so that the regular        *)
(* expressions of the source are computed character by character.          *)
(***************************************************************************)
EXTENDS Integers, Sequences, FiniteSets, TLC

(***************************************************************************)
(* Bounds of the model.                                                     *)
(***************************************************************************)
\* rows of one fetched page
MaxRows == 2
\* words of a company name drawn for the symbol derivation
MaxWords == 3
\* Math.random() is drawn from { k / RandSteps : k \in 0 .. RandSteps - 1 }
RandSteps == 2

(***************************************************************************)
(* Characters and strings.                                                  *)
(***************************************************************************)
LowerSeq == << "a", "b", "c", "d", "e", "f", "g", "h", "i", "j", "k", "l", "m",
               "n", "o", "p", "q", "r", "s", "t", "u", "v", "w", "x", "y", "z" >>

UpperSeq == << "A", "B", "C", "D", "E", "F", "G", "H", "I", "J", "K", "L", "M",
               "N", "O", "P", "Q", "R", "S", "T", "U", "V", "W", "X", "Y", "Z" >>

Lower == { LowerSeq[i] : i \in 1 .. 26 }

Upper == { UpperSeq[i] : i \in 1 .. 26 }

Digit == { "0", "1", "2", "3", "4", "5", "6", "7", "8", "9" }

\* the class \s of a JavaScript regular expression, as far as the inputs go
WhiteSpace == { " ", "\t", "\n" }

\* the class [a-zA-Z0-9]
AlphaNum == Lower \cup Upper \cup Digit

\* String.prototype.toUpperCase / toLowerCase on one character
UpperOf ==
    [ a |-> "A", b |-> "B", c |-> "C", d |-> "D", e |-> "E", f |-> "F", g |-> "G",
      h |-> "H", i |-> "I", j |-> "J", k |-> "K", l |-> "L", m |-> "M", n |-> "N",
      o |-> "O", p |-> "P", q |-> "Q", r |-> "R", s |-> "S", t |-> "T", u |-> "U",
      v |-> "V", w |-> "W", x |-> "X", y |-> "Y", z |-> "Z" ]

LowerOf ==
    [ A |-> "a", B |-> "b", C |-> "c", D |-> "d", E |-> "e", F |-> "f", G |-> "g",
      H |-> "h", I |-> "i", J |-> "j", K |-> "k", L |-> "l", M |-> "m", N |-> "n",
      O |-> "o", P |-> "p", Q |-> "q", R |-> "r", S |-> "s", T |-> "t", U |-> "u",
      V |-> "v", W |-> "w", X |-> "x", Y |-> "y", Z |-> "z" ]

UpperChar(c) == IF c \in Lower THEN UpperOf[c] ELSE c

LowerChar(c) == IF c \in Upper THEN LowerOf[c] ELSE c

toUpperCase(s) == SubSeq([i \in 1 .. Len(s) |-> UpperChar(s[i])], 1, Len(s))

toLowerCase(s) == SubSeq([i \in 1 .. Len(s) |-> LowerChar(s[i])], 1, Len(s))

\* s.slice(from) with a 1-based from: the suffix starting at index from
Drop(s, from) == IF from > Len(s) THEN << >> ELSE SubSeq(s, from, Len(s))

\* s.slice(0, n)
slice(s, n) == IF Len(s) <= n THEN s ELSE SubSeq(s, 1, n)

\* String.prototype.trim
RECURSIVE trimStart(_)
trimStart(s) ==
    IF s # << >> /\ Head(s) \in WhiteSpace THEN trimStart(Tail(s)) ELSE s

RECURSIVE trimEnd(_)
trimEnd(s) ==
    IF s # << >> /\ s[Len(s)] \in WhiteSpace
    THEN trimEnd(SubSeq(s, 1, Len(s) - 1))
    ELSE s

trim(s) == trimEnd(trimStart(s))

\* t is a prefix of s, compared case-insensitively (the i flag)
IsPrefixCI(t, s) ==
    /\ Len(t) <= Len(s)
    /\ \A i \in 1 .. Len(t) : LowerChar(t[i]) = LowerChar(s[i])

\* String.prototype.includes
includes(s, t) ==
    \E i \in 1 .. (Len(s) - Len(t) + 1) : SubSeq(s, i, i + Len(t) - 1) = t

\* length of the run of whitespace at the start of s: what \s+ consumes
RECURSIVE SpaceRun(_)
SpaceRun(s) ==
    IF s # << >> /\ Head(s) \in WhiteSpace THEN 1 + SpaceRun(Tail(s)) ELSE 0

\* .replace(/[^a-zA-Z0-9]/g, "")
RECURSIVE stripNonAlphaNum(_)
stripNonAlphaNum(s) ==
    IF s = << >> THEN << >>
    ELSE IF Head(s) \in AlphaNum
         THEN << Head(s) >> \o stripNonAlphaNum(Tail(s))
         ELSE stripNonAlphaNum(Tail(s))

(***************************************************************************)
(* The regular expressions of the row extraction.                           *)
(***************************************************************************)
\* .replace(/\s+IPO$/i, ""): the leftmost match starts at the first blank of
\* the run of blanks that precedes a final "IPO"
RECURSIVE stripIpoSuffix(_)
stripIpoSuffix(s) ==
    IF s = << >> THEN s
    ELSE LET n == SpaceRun(s)
         IN  IF n > 0 /\ toLowerCase(Drop(s, n + 1)) = << "i", "p", "o" >>
             THEN << >>
             ELSE << Head(s) >> \o stripIpoSuffix(Tail(s))

\* index of the first ")" of s that a lazy .*? reaches ("." stops at a line
\* break), 0 if there is none
RECURSIVE CloseParen(_, _)
CloseParen(s, i) ==
    IF i > Len(s) \/ s[i] = "\n" THEN 0
    ELSE IF s[i] = ")" THEN i
    ELSE CloseParen(s, i + 1)

\* length of the match of /\s+\(.*?\)/ at the start of s, 0 if none
ParenMatch(s) ==
    LET n == SpaceRun(s)
    IN  IF n > 0 /\ n < Len(s) /\ s[n + 1] = "("
        THEN CloseParen(s, n + 2)
        ELSE 0

\* .replace(/\s+\(.*?\)/g, "")
RECURSIVE stripParens(_)
stripParens(s) ==
    IF s = << >> THEN s
    ELSE LET m == ParenMatch(s)
         IN  IF m > 0 THEN stripParens(Drop(s, m + 1))
             ELSE << Head(s) >> \o stripParens(Tail(s))

\* the alternatives of the three suffix expressions, in the order written
Ltd == << "L", "t", "d" >>
Limited == << "L", "i", "m", "i", "t", "e", "d" >>
Ipo == << "I", "P", "O" >>
India == << "I", "n", "d", "i", "a" >>
Private == << "P", "r", "i", "v", "a", "t", "e" >>
Pvt == << "P", "v", "t" >>
Technologies == << "T", "e", "c", "h", "n", "o", "l", "o", "g", "i", "e", "s" >>
Tech == << "T", "e", "c", "h" >>
Industries == << "I", "n", "d", "u", "s", "t", "r", "i", "e", "s" >>
Infra == << "I", "n", "f", "r", "a" >>

PrimarySuffixes ==
    << Ltd, Limited, India, Private, Pvt, Technologies, Tech, Industries, Infra >>

FallbackSuffixes == << Ltd, Limited, India, Private, Pvt, Technologies, Tech >>

GmpSuffixes == << Ltd, Limited, Ipo, India, Private, Pvt, Technologies, Tech >>

\* length of the first alternative of alts (from index k) that matches at the
\* start of s, 0 if none: a regex alternation takes the first that matches
RECURSIVE FirstAlt(_, _, _)
FirstAlt(alts, k, s) ==
    IF k > Len(alts) THEN 0
    ELSE IF IsPrefixCI(alts[k], s) THEN Len(alts[k])
    ELSE FirstAlt(alts, k + 1, s)

\* length of the match of /\s+(alt1|alt2|...)\.?/i at the start of s, 0 if none
SuffixMatch(alts, s) ==
    LET n == SpaceRun(s)
        a == IF n > 0 THEN FirstAlt(alts, 1, Drop(s, n + 1)) ELSE 0
    IN  IF a = 0 THEN 0
        ELSE IF n + a < Len(s) /\ s[n + a + 1] = "." THEN n + a + 1
        ELSE n + a

\* .replace(/\s+(alt1|alt2|...)\.?/gi, "")
RECURSIVE stripSuffixes(_, _)
stripSuffixes(alts, s) ==
    IF s = << >> THEN s
    ELSE LET m == SuffixMatch(alts, s)
         IN  IF m > 0 THEN stripSuffixes(alts, Drop(s, m + 1))
             ELSE << Head(s) >> \o stripSuffixes(alts, Tail(s))

\* the 12-character cap of a symbol
SymbolCap == 12

\* the least length of a company text and of a symbol
MinLen == 3

\* deriveSymbol without the final slice(0, 12)
deriveSymbolUncapped(alts, name) ==
    toUpperCase(stripNonAlphaNum(stripSuffixes(alts, name)))

\* name.replace(suffixes).replace(/[^a-zA-Z0-9]/g, "").toUpperCase().slice(0, 12)
deriveSymbol(alts, name) ==
    slice(toUpperCase(stripNonAlphaNum(stripSuffixes(alts, name))), SymbolCap)

\* companyName of the primary template, from the trimmed text of cell 0
primaryCompanyName(companyText) ==
    trim(stripParens(stripIpoSuffix(companyText)))

\* companyName of the fallback template
fallbackCompanyName(companyText) == trim(stripIpoSuffix(companyText))

primarySymbol(companyText) ==
    deriveSymbol(PrimarySuffixes, primaryCompanyName(companyText))

fallbackSymbol(companyText) ==
    deriveSymbol(FallbackSuffixes, fallbackCompanyName(companyText))

gmpSymbol(companyName) == deriveSymbol(GmpSuffixes, companyName)

\* companyText.toLowerCase().includes("company") || ...includes("ipo name")
headerLike(companyText) ==
    \/ includes(toLowerCase(companyText), << "c", "o", "m", "p", "a", "n", "y" >>)
    \/ includes(toLowerCase(companyText), << "i", "p", "o", " ", "n", "a", "m", "e" >>)

(***************************************************************************)
(* Numbers in cell text.                                                    *)
(***************************************************************************)
DigitSeq == << "0", "1", "2", "3", "4", "5", "6", "7", "8", "9" >>

DigitVal(c) == (CHOOSE i \in 1 .. 10 : DigitSeq[i] = c) - 1

\* length of the run of digits at the start of s: what \d+ consumes
RECURSIVE DigitRun(_)
DigitRun(s) ==
    IF s # << >> /\ Head(s) \in Digit THEN 1 + DigitRun(Tail(s)) ELSE 0

\* the value of a non-empty string of digits
RECURSIVE DigitsValue(_)
DigitsValue(s) ==
    IF s = << >> THEN 0
    ELSE 10 * DigitsValue(SubSeq(s, 1, Len(s) - 1)) + DigitVal(s[Len(s)])

\* null and a present value
Null == { }

Some(v) == { v }

ValueOf(o) == CHOOSE v \in o : TRUE

\* gmpText.match(/[+-]?\d+/) followed by parseInt(match[0]): the leftmost
\* match, Null if there is none
RECURSIVE matchSignedInt(_)
matchSignedInt(s) ==
    IF s = << >> THEN Null
    ELSE IF Head(s) \in { "+", "-" } /\ DigitRun(Tail(s)) > 0
         THEN LET v == DigitsValue(SubSeq(Tail(s), 1, DigitRun(Tail(s))))
              IN  Some(IF Head(s) = "-" THEN 0 - v ELSE v)
    ELSE IF Head(s) \in Digit
         THEN Some(DigitsValue(SubSeq(s, 1, DigitRun(s))))
    ELSE matchSignedInt(Tail(s))

\* expectedText.match(/\d+/) followed by parseInt(match[0])
RECURSIVE matchInt(_)
matchInt(s) ==
    IF s = << >> THEN Null
    ELSE IF Head(s) \in Digit
         THEN Some(DigitsValue(SubSeq(s, 1, DigitRun(s))))
    ELSE matchInt(Tail(s))

\* m ? parseInt(m[0]) : 0
orZero(o) == IF o = Null THEN 0 ELSE ValueOf(o)

(***************************************************************************)
(* Inputs: company names, table rows, pages and fetch outcomes.             *)
(***************************************************************************)
Zinka == << "Z", "i", "n", "k", "a" >>
Logistics == << "L", "o", "g", "i", "s", "t", "i", "c", "s" >>
Abc == << "A", "b", "c" >>
Ab == << "A", "b" >>
LtdDot == << "L", "t", "d", "." >>
Company == << "C", "o", "m", "p", "a", "n", "y" >>
Name == << "N", "a", "m", "e" >>
Sme == << "(", "S", "M", "E", ")" >>
Amp7 == << "&", "7" >>

\* the words a drawn company name is made of
Vocabulary == { Zinka, Logistics, Ab, Ltd, LtdDot, Infra, Ipo, Company, Sme, Amp7 }

\* the words of ws separated by one blank
RECURSIVE JoinWords(_)
JoinWords(ws) ==
    IF Len(ws) = 0 THEN << >>
    ELSE IF Len(ws) = 1 THEN ws[1]
    ELSE ws[1] \o << " " >> \o JoinWords(Tail(ws))

NamePool ==
    { JoinWords(ws) : ws \in UNION { [1 .. n -> Vocabulary] : n \in 1 .. MaxWords } }

\* the numbers of <td> cells a drawn row has
CellCounts == 2 .. 5

\* rows of the listings pages of a pipeline run: the number of <td> cells of
\* the row and the text of cell 0
ListingRows ==
    { [cells |-> 5, name |-> JoinWords(<< Zinka, Logistics, Ltd >>)],
      [cells |-> 4, name |-> JoinWords(<< Abc, Infra, Ipo >>)],
      [cells |-> 4, name |-> JoinWords(<< Company, Name >>)],
      [cells |-> 4, name |-> JoinWords(<< Ab, Ltd >>)],
      [cells |-> 3, name |-> JoinWords(<< Abc, Ltd >>)] }

\* rows of the GMP pages of a pipeline run: cell 0, cell 1 (premium) and
\* cell 2 (expected listing price, absent when the row has two cells)
GmpRows ==
    { [cells |-> 3, name |-> JoinWords(<< Zinka, Logistics, Ltd, Ipo >>),
       gmpText |-> << "+", "2", "5" >>, expectedText |-> << "3", "0", "0" >>],
      [cells |-> 3, name |-> JoinWords(<< Zinka, Logistics, Limited >>),
       gmpText |-> << "-", "-" >>, expectedText |-> << "R", "s", " ", "9" >>],
      [cells |-> 2, name |-> JoinWords(<< Abc, Infra >>),
       gmpText |-> << "-", "5" >>, expectedText |-> << >>],
      [cells |-> 3, name |-> JoinWords(<< Ipo, Name >>),
       gmpText |-> << "G", "M", "P" >>, expectedText |-> << >>] }

\* the pages of at most MaxRows rows
Pages(rows) == UNION { [1 .. n -> rows] : n \in 0 .. MaxRows }

\* what fetchPage(url) gives: it throws, or it returns a page
Responses(rows) ==
    { [ok |-> FALSE, rows |-> << >>] } \cup { [ok |-> TRUE, rows |-> p] : p \in Pages(rows) }

IPO_DASHBOARD == "ipo_dashboard"

IPO_LIST_2025 == "ipo_list_2025"

gmpUrls == << "gmp_upcoming_104", "gmp_latest_90" >>

Urls == { IPO_DASHBOARD, IPO_LIST_2025 } \cup { gmpUrls[i] : i \in 1 .. Len(gmpUrls) }

(***************************************************************************)
(* Row extraction.  Each operator gives the sequence of records the row     *)
(* pushes: one record, or none when the row is skipped.                     *)
(***************************************************************************)
\* RawIpoData: the join key and the display name.  The date, price, issue
\* size, lot size, status and detail url never decide whether a row is pushed.
RawIpoData(symbol, companyName) ==
    [symbol |-> symbol, companyName |-> companyName]

\* body of the row callback of the primary template
primaryRow(row) ==
    LET companyText == trim(row.name)
        companyName == primaryCompanyName(companyText)
        symbol == deriveSymbol(PrimarySuffixes, companyName)
    IN  IF row.cells < 3 THEN << >>
        ELSE IF Len(companyText) < MinLen THEN << >>
        ELSE IF headerLike(companyText) THEN << >>
        ELSE IF symbol # << >> /\ companyName # << >> /\ Len(symbol) >= MinLen
             THEN << [text |-> companyText, raw |-> RawIpoData(symbol, companyName)] >>
        ELSE << >>

\* body of the row callback of the fallback template
fallbackRow(row) ==
    LET companyText == trim(row.name)
        companyName == fallbackCompanyName(companyText)
        symbol == deriveSymbol(FallbackSuffixes, companyName)
    IN  IF row.cells < 4 THEN << >>
        ELSE IF Len(companyText) < MinLen THEN << >>
        ELSE IF symbol # << >> /\ companyName # << >> /\ Len(symbol) >= MinLen
             THEN << [text |-> companyText, raw |-> RawIpoData(symbol, companyName)] >>
        ELSE << >>

\* the rows of the run's pages are extracted once
PrimaryExtract == [r \in ListingRows |-> primaryRow(r)]

FallbackExtract == [r \in ListingRows |-> fallbackRow(r)]

\* $("table").each(... find("tr").each(...)) of the primary template
RECURSIVE primaryRows(_)
primaryRows(rows) ==
    IF rows = << >> THEN << >>
    ELSE PrimaryExtract[Head(rows)] \o primaryRows(Tail(rows))

RECURSIVE fallbackRows(_)
fallbackRows(rows) ==
    IF rows = << >> THEN << >>
    ELSE FallbackExtract[Head(rows)] \o fallbackRows(Tail(rows))

GmpData(symbol, gmp, expectedListing) ==
    [symbol |-> symbol, gmp |-> gmp, expectedListing |-> expectedListing]

\* the row callback of scrapeGmpData up to the symbol check: the record the
\* row stands for, none when the row is skipped
gmpRowRecord(r) ==
    LET companyName == trim(r.name)
        gmpText == trim(r.gmpText)
        expectedText == IF r.cells >= 3 THEN trim(r.expectedText) ELSE << >>
        symbol == gmpSymbol(companyName)
        gmp == orZero(matchSignedInt(gmpText))
        expectedListing == orZero(matchInt(expectedText))
    IN  IF r.cells < 2 THEN << >>
        ELSE IF Len(companyName) < MinLen THEN << >>
        ELSE IF headerLike(companyName) THEN << >>
        ELSE IF symbol # << >> /\ Len(symbol) >= MinLen
             THEN << GmpData(symbol, gmp, expectedListing) >>
        ELSE << >>

GmpExtract == [r \in GmpRows |-> gmpRowRecord(r)]

\* gmpData.find(g => g.symbol === symbol) is not undefined
gmpFind(data, symbol) == \E i \in 1 .. Len(data) : data[i].symbol = symbol

\* gmpPush that lets a later row of a symbol replace the record kept for it
gmpPushReplace(data, rec) ==
    IF gmpFind(data, rec.symbol)
    THEN [i \in 1 .. Len(data) |-> IF data[i].symbol = rec.symbol THEN rec ELSE data[i]]
    ELSE Append(data, rec)

\* const existing = gmpData.find(...); if (!existing) gmpData.push(...)
gmpPush(data, rec) == IF gmpFind(data, rec.symbol) THEN data ELSE Append(data, rec)

\* $("table").find("tr").each(...) of one GMP page: gmpData after its rows
RECURSIVE gmpRowsInto(_, _)
gmpRowsInto(data, rows) ==
    IF rows = << >> THEN data
    ELSE LET rec == GmpExtract[Head(rows)]
         IN  gmpRowsInto(IF rec = << >> THEN data ELSE gmpPush(data, rec[1]), Tail(rows))

\* useFallback that tries the list page whatever the dashboard gave
useFallbackAlways(list) == Len(list) >= 0

\* if (ipos.length === 0): the list page is tried
useFallback(list) == Len(list) = 0

\* gmpBreak that never leaves the loop early
gmpBreakNever(data) == Len(data) < 0

\* if (gmpData.length > 0) break
gmpBreak(data) == Len(data) > 0

ListingResponses == Responses(ListingRows)

GmpResponses == Responses(GmpRows)

(***************************************************************************)
(* The join of scrapeAndTransformIPOs.                                      *)
(***************************************************************************)
\* new Map(gmpData.map(g => [g.symbol, g])).get(symbol): a later entry of the
\* same key replaces an earlier one; Null when the key is absent
gmpMapGet(data, symbol) ==
    LET hits == { i \in 1 .. Len(data) : data[i].symbol = symbol }
    IN  IF hits = { } THEN Null
        ELSE Some(data[CHOOSE i \in hits : \A j \in hits : j <= i])

\* the values Math.random() is drawn from are k / RandSteps
RandomDraws == 0 .. (RandSteps - 1)

GmpSampleSpan == 100

GmpSampleShift == 20

\* Math.floor(Math.random() * 100) - 20
sampleGmp(k) == ((k * GmpSampleSpan) \div RandSteps) - GmpSampleShift

\* gmpOrSample as gmp?.gmp ?? null
gmpOrNull(found, k) ==
    IF found # Null THEN Some(ValueOf(found).gmp) ELSE Null

\* gmpOrSample with || in place of ??: a premium of 0 counts as missing
gmpOrSampleFalsy(found, k) ==
    IF found # Null /\ ValueOf(found).gmp # 0
    THEN Some(ValueOf(found).gmp)
    ELSE Some(sampleGmp(k))

\* gmp?.gmp ?? Math.floor(Math.random() * 100) - 20
gmpOrSample(found, k) ==
    IF found # Null THEN Some(ValueOf(found).gmp) ELSE Some(sampleGmp(k))

\* the record rawIpos.map builds from one listing, as far as the join goes
\* (symbol, companyName, gmp); k is the random draw of its sample gmp
transformIpo(raw, data, k) ==
    [symbol |-> raw.symbol,
     companyName |-> raw.companyName,
     gmp |-> gmpOrSample(gmpMapGet(data, raw.symbol), k)]

(***************************************************************************)
(* State of one pipeline run.                                               *)
(***************************************************************************)
VARIABLES
    pcRun,            \* scrapeAndTransformIPOs: idle, awaiting, resolved, rejected
    pcMain,           \* scrapeMainboardIPOs: idle, primary, fallback, returned
    pcGmp,            \* scrapeGmpData: idle, fetching, returned
    gmpIdx,           \* index in gmpUrls of the page scrapeGmpData awaits
    ipos,             \* the array ipos of scrapeMainboardIPOs
    iposText,         \* for each entry of ipos, the cell text it was made from
    gmpData,          \* the array gmpData of scrapeGmpData
    gmpPage,          \* rows of the GMP page loaded last
    requests,         \* the urls passed to fetchPage, in call order
    fetched,          \* per url: idle, pending, failed or loaded
    yielded,          \* per url: the number of records its page gave
    transformedIpos,  \* the value the run resolves with
    rowIn,              \* row extraction alone: the row drawn
    rowOut,              \* row extraction alone: what each template makes of it
    callIn,           \* one function alone: the arguments drawn
    callOut           \* one function alone: what the call returned

vars == << pcRun, pcMain, pcGmp, gmpIdx, ipos, iposText, gmpData, gmpPage,
           requests, fetched, yielded, transformedIpos, rowIn, rowOut, callIn, callOut >>

runVars == << pcRun, pcMain, pcGmp, gmpIdx, ipos, iposText, gmpData, gmpPage,
              requests, fetched, yielded, transformedIpos >>

NoRow == [cells |-> 0, name |-> << >>]

NoOut == [done |-> FALSE]

NoCall == [fn |-> "none"]

InitRun ==
    /\ pcRun = "idle"
    /\ pcMain = "idle"
    /\ pcGmp = "idle"
    /\ gmpIdx = 0
    /\ ipos = << >>
    /\ iposText = << >>
    /\ gmpData = << >>
    /\ gmpPage = << >>
    /\ requests = << >>
    /\ fetched = [u \in Urls |-> "idle"]
    /\ yielded = [u \in Urls |-> 0]
    /\ transformedIpos = << >>

Init ==
    /\ InitRun
    /\ rowIn = NoRow
    /\ rowOut = NoOut
    /\ callIn = NoCall
    /\ callOut = NoOut

\* fetchPage(url) is called: the request is in flight
fetchPage(url) ==
    /\ requests' = Append(requests, url)
    /\ fetched' = [fetched EXCEPT ![url] = "pending"]

\* fetchPage(url) is called and, in the same step, the request for done settles
settleAndFetch(done, r, url) ==
    /\ requests' = Append(requests, url)
    /\ fetched' = [fetched EXCEPT ![done] = IF r.ok THEN "loaded" ELSE "failed",
                                  ![url] = "pending"]

settle(done, r) ==
    /\ requests' = requests
    /\ fetched' = [fetched EXCEPT ![done] = IF r.ok THEN "loaded" ELSE "failed"]

\* scrapeAndTransformIPOs is called: Promise.all starts both scrapers, each
\* runs up to its first await fetchPage
Start ==
    /\ pcRun = "idle"
    /\ pcRun' = "awaiting"
    /\ pcMain' = "primary"
    /\ pcGmp' = "fetching"
    /\ gmpIdx' = 1
    /\ requests' = requests \o << IPO_DASHBOARD, gmpUrls[1] >>
    /\ fetched' = [fetched EXCEPT ![IPO_DASHBOARD] = "pending", ![gmpUrls[1]] = "pending"]
    /\ UNCHANGED << ipos, iposText, gmpData, gmpPage, yielded, transformedIpos, rowIn, rowOut, callIn, callOut >>

\* scrapeMainboardIPOs resumes after await fetchPage(IPO_DASHBOARD): the rows
\* of the page are extracted, or the catch block swallows the failure; with
\* no record the list page is requested
PrimaryResponse ==
    /\ pcMain = "primary"
    /\ \E r \in ListingResponses :
         LET got == primaryRows(r.rows)
         IN  /\ ipos' = [i \in 1 .. Len(got) |-> got[i].raw]
             /\ iposText' = [i \in 1 .. Len(got) |-> got[i].text]
             /\ yielded' = [yielded EXCEPT ![IPO_DASHBOARD] = Len(got)]
             /\ IF useFallback(ipos')
                THEN /\ pcMain' = "fallback"
                     /\ settleAndFetch(IPO_DASHBOARD, r, IPO_LIST_2025)
                ELSE /\ pcMain' = "returned"
                     /\ settle(IPO_DASHBOARD, r)
    /\ UNCHANGED << pcRun, pcGmp, gmpIdx, gmpData, gmpPage, transformedIpos, rowIn, rowOut, callIn, callOut >>

\* scrapeMainboardIPOs resumes after await fetchPage(IPO_LIST_2025) and returns
FallbackResponse ==
    /\ pcMain = "fallback"
    /\ \E r \in ListingResponses :
         LET got == fallbackRows(r.rows)
         IN  /\ ipos' = ipos \o [i \in 1 .. Len(got) |-> got[i].raw]
             /\ iposText' = iposText \o [i \in 1 .. Len(got) |-> got[i].text]
             /\ yielded' = [yielded EXCEPT ![IPO_LIST_2025] = Len(got)]
             /\ settle(IPO_LIST_2025, r)
    /\ pcMain' = "returned"
    /\ UNCHANGED << pcRun, pcGmp, gmpIdx, gmpData, gmpPage, transformedIpos, rowIn, rowOut, callIn, callOut >>

\* GmpResponse without the try/catch around fetchPage: a failed fetch rejects
\* the promise of scrapeGmpData and with it Promise.all
GmpResponseUncaught ==
    /\ pcGmp = "fetching"
    /\ \E r \in GmpResponses :
         LET data == gmpRowsInto(gmpData, r.rows)
             url == gmpUrls[gmpIdx]
         IN  /\ gmpData' = data
             /\ gmpPage' = r.rows
             /\ yielded' = [yielded EXCEPT ![url] = Len(data) - Len(gmpData)]
             /\ pcRun' = IF r.ok THEN pcRun ELSE "rejected"
             /\ IF ~ r.ok \/ gmpBreak(data) \/ gmpIdx = Len(gmpUrls)
                THEN /\ pcGmp' = "returned"
                     /\ gmpIdx' = gmpIdx
                     /\ settle(url, r)
                ELSE /\ pcGmp' = "fetching"
                     /\ gmpIdx' = gmpIdx + 1
                     /\ settleAndFetch(url, r, gmpUrls[gmpIdx + 1])
    /\ UNCHANGED << pcMain, ipos, iposText, transformedIpos, rowIn, rowOut, callIn, callOut >>

\* scrapeGmpData resumes after await fetchPage(gmpUrl): the rows are extracted
\* or the failure is swallowed; the loop breaks on a record, else goes on to
\* the next url, and returns after the last
GmpResponse ==
    /\ pcGmp = "fetching"
    /\ \E r \in GmpResponses :
         LET data == gmpRowsInto(gmpData, r.rows)
             url == gmpUrls[gmpIdx]
         IN  /\ gmpData' = data
             /\ gmpPage' = r.rows
             /\ yielded' = [yielded EXCEPT ![url] = Len(data) - Len(gmpData)]
             /\ IF r.ok /\ gmpBreak(data)
                THEN /\ pcGmp' = "returned"
                     /\ gmpIdx' = gmpIdx
                     /\ settle(url, r)
                ELSE IF gmpIdx < Len(gmpUrls)
                THEN /\ pcGmp' = "fetching"
                     /\ gmpIdx' = gmpIdx + 1
                     /\ settleAndFetch(url, r, gmpUrls[gmpIdx + 1])
                ELSE /\ pcGmp' = "returned"
                     /\ gmpIdx' = gmpIdx
                     /\ settle(url, r)
    /\ UNCHANGED << pcRun, pcMain, ipos, iposText, transformedIpos, rowIn, rowOut, callIn, callOut >>

\* Join that awaits scrapeMainboardIPOs alone
JoinEarly ==
    /\ pcRun = "awaiting"
    /\ pcMain = "returned"
    /\ \E draw \in [1 .. Len(ipos) -> RandomDraws] :
         transformedIpos' = [i \in 1 .. Len(ipos) |-> transformIpo(ipos[i], gmpData, draw[i])]
    /\ pcRun' = "resolved"
    /\ UNCHANGED << pcMain, pcGmp, gmpIdx, ipos, iposText, gmpData, gmpPage,
                    requests, fetched, yielded, rowIn, rowOut, callIn, callOut >>

\* Join that throws when there is no listing
JoinRejectsEmpty ==
    /\ pcRun = "awaiting"
    /\ pcMain = "returned"
    /\ pcGmp = "returned"
    /\ \E draw \in [1 .. Len(ipos) -> RandomDraws] :
         transformedIpos' = [i \in 1 .. Len(ipos) |-> transformIpo(ipos[i], gmpData, draw[i])]
    /\ pcRun' = IF ipos = << >> THEN "rejected" ELSE "resolved"
    /\ UNCHANGED << pcMain, pcGmp, gmpIdx, ipos, iposText, gmpData, gmpPage,
                    requests, fetched, yielded, rowIn, rowOut, callIn, callOut >>

\* Promise.all has both results: the listings are joined with the GMP records
\* and the run resolves (nothing in the body of rawIpos.map throws)
Join ==
    /\ pcRun = "awaiting"
    /\ pcMain = "returned"
    /\ pcGmp = "returned"
    /\ \E draw \in [1 .. Len(ipos) -> RandomDraws] :
         transformedIpos' = [i \in 1 .. Len(ipos) |-> transformIpo(ipos[i], gmpData, draw[i])]
    /\ pcRun' = "resolved"
    /\ UNCHANGED << pcMain, pcGmp, gmpIdx, ipos, iposText, gmpData, gmpPage,
                    requests, fetched, yielded, rowIn, rowOut, callIn, callOut >>

Next == Start \/ PrimaryResponse \/ FallbackResponse \/ GmpResponse \/ Join

Spec == Init /\ [][Next]_vars

(***************************************************************************)
(* Row extraction alone: one drawn row, put through the row callback of     *)
(* each of the three templates.                                             *)
(***************************************************************************)
\* the row as a row of a GMP table, with a premium cell
asGmpRow(r, name) ==
    [cells |-> r.cells, name |-> name, gmpText |-> << "1", "2" >>, expectedText |-> << >>]

IpoSuffix == << " ", "I", "P", "O" >>

InitRow ==
    /\ InitRun
    /\ rowIn \in [cells : CellCounts, name : NamePool]
    /\ rowOut = NoOut
    /\ callIn = NoCall
    /\ callOut = NoOut

ExtractRow ==
    /\ rowIn # NoRow
    /\ rowOut = NoOut
    /\ rowOut' = [done |-> TRUE,
                  primary |-> primaryRow(rowIn),
                  fallback |-> fallbackRow(rowIn),
                  gmp |-> gmpRowRecord(asGmpRow(rowIn, rowIn.name)),
                  primarySym |-> primarySymbol(trim(rowIn.name)),
                  fallbackSym |-> fallbackSymbol(trim(rowIn.name)),
                  gmpSym |-> gmpSymbol(trim(rowIn.name)),
                  gmpIpoSym |-> gmpSymbol(trim(rowIn.name \o IpoSuffix))]
    /\ UNCHANGED << runVars, rowIn, callIn, callOut >>

NextRow == ExtractRow

SpecRow == InitRow /\ [][NextRow]_vars

(***************************************************************************)
(* Properties.                                                              *)
(***************************************************************************)
Settled(url) == fetched[url] \in { "failed", "loaded" }

RunSettled == pcRun \in { "resolved", "rejected" }

\* both listings sources gave no record
NoListings ==
    /\ Settled(IPO_DASHBOARD) /\ yielded[IPO_DASHBOARD] = 0
    /\ Settled(IPO_LIST_2025) /\ yielded[IPO_LIST_2025] = 0

C2_FallbackIffPrimaryEmpty ==
    /\ fetched[IPO_LIST_2025] # "idle" =>
           (Settled(IPO_DASHBOARD) /\ yielded[IPO_DASHBOARD] = 0)
    /\ (Settled(IPO_DASHBOARD) /\ yielded[IPO_DASHBOARD] = 0) =>
           fetched[IPO_LIST_2025] # "idle"
    /\ pcMain = "returned" =>
           /\ Settled(IPO_DASHBOARD)
           /\ yielded[IPO_DASHBOARD] = 0 => Settled(IPO_LIST_2025)
           /\ yielded[IPO_DASHBOARD] > 0 => fetched[IPO_LIST_2025] = "idle"

C2_Witness ==
    /\ pcMain = "returned"
    /\ fetched[IPO_DASHBOARD] = "loaded"
    /\ yielded[IPO_DASHBOARD] = 0
    /\ fetched[IPO_LIST_2025] = "loaded"
    /\ yielded[IPO_LIST_2025] > 0

AllGmpFailed == \A i \in 1 .. Len(gmpUrls) : fetched[gmpUrls[i]] = "failed"

\* C3: the listings fetch and the GMP fetch fail independently.  A failure of
\* every GMP page never rejects the run, and the run then resolves with one
\* record for each extracted listing, in order; a failed dashboard fetch
\* leaves the list page and the GMP pages requested as usual.
C3_IndependentFailures ==
    /\ (AllGmpFailed /\ pcMain = "returned") =>
           /\ pcGmp = "returned"
           /\ pcRun \in { "awaiting", "resolved" }
           /\ pcRun = "awaiting" => ENABLED Join
           /\ pcRun = "resolved" =>
                  /\ Len(transformedIpos) = Len(ipos)
                  /\ \A i \in 1 .. Len(ipos) : transformedIpos[i].symbol = ipos[i].symbol
    /\ fetched[IPO_DASHBOARD] = "failed" =>
           /\ fetched[IPO_LIST_2025] # "idle"
           /\ fetched[gmpUrls[1]] # "idle"
           /\ (Settled(gmpUrls[1]) /\ yielded[gmpUrls[1]] = 0) => fetched[gmpUrls[2]] # "idle"
    /\ pcRun # "rejected"

C3_Witness ==
    /\ pcRun = "resolved"
    /\ AllGmpFailed
    /\ fetched[IPO_DASHBOARD] = "failed"
    /\ fetched[IPO_LIST_2025] = "loaded"
    /\ Len(transformedIpos) = MaxRows

\* the symbol is the symbol of no record of gmpData
Unmatched(symbol) == \A j \in 1 .. Len(gmpData) : gmpData[j].symbol # symbol

C5_MatchedGmpIsPremium ==
    pcRun = "resolved" =>
        \A i \in 1 .. Len(transformedIpos) :
            \A j \in 1 .. Len(gmpData) :
                gmpData[j].symbol = ipos[i].symbol =>
                    transformedIpos[i].gmp = Some(gmpData[j].gmp)

C5_Witness ==
    /\ pcRun = "resolved"
    /\ \E i \in 1 .. Len(transformedIpos) :
           \E j \in 1 .. Len(gmpData) :
               /\ gmpData[j].symbol = ipos[i].symbol
               /\ gmpData[j].gmp = 0
               /\ transformedIpos[i].gmp = Some(0)

\* position of url in requests, 0 if it was never requested
RequestIndex(url) ==
    IF \E i \in 1 .. Len(requests) : requests[i] = url
    THEN CHOOSE i \in 1 .. Len(requests) : requests[i] = url
    ELSE 0

\* C6: scrapeGmpData tries the GMP pages in their fixed order; the first page
\* that gives a record ends the search; a page that fails or gives no record
\* makes the next page be tried; if every page fails or is empty the result
\* is the empty list and nothing is raised.
C6_GmpPagesInOrder ==
    /\ \A i \in 1 .. Len(gmpUrls) - 1 :
           /\ fetched[gmpUrls[i + 1]] # "idle" =>
                  /\ Settled(gmpUrls[i])
                  /\ yielded[gmpUrls[i]] = 0
                  /\ RequestIndex(gmpUrls[i]) < RequestIndex(gmpUrls[i + 1])
           /\ (Settled(gmpUrls[i]) /\ yielded[gmpUrls[i]] = 0) =>
                  fetched[gmpUrls[i + 1]] # "idle"
    /\ \A i \in 1 .. Len(gmpUrls) :
           (Settled(gmpUrls[i]) /\ yielded[gmpUrls[i]] > 0) =>
               /\ pcGmp = "returned"
               /\ \A k \in (i + 1) .. Len(gmpUrls) : fetched[gmpUrls[k]] = "idle"
    /\ pcGmp = "returned" =>
           \/ \E i \in 1 .. Len(gmpUrls) : Settled(gmpUrls[i]) /\ yielded[gmpUrls[i]] > 0
           \/ /\ \A i \in 1 .. Len(gmpUrls) : Settled(gmpUrls[i]) /\ yielded[gmpUrls[i]] = 0
              /\ gmpData = << >>
    /\ pcRun # "rejected"

C6_Witness ==
    /\ pcGmp = "returned"
    /\ fetched[gmpUrls[1]] = "loaded"
    /\ yielded[gmpUrls[1]] = 0
    /\ fetched[gmpUrls[2]] = "loaded"
    /\ yielded[gmpUrls[2]] > 0

\* the rows of the page that are accepted with the given symbol
AcceptedAs(page, symbol) ==
    { k \in 1 .. Len(page) :
        GmpExtract[page[k]] # << >> /\ GmpExtract[page[k]][1].symbol = symbol }

\* C7: the list scrapeGmpData returns never holds two records of one symbol,
\* and the record kept for a symbol holds the premium and the expected
\* listing value of the first accepted row of that symbol in page order.
C7_FirstRowPerSymbol ==
    /\ \A i, j \in 1 .. Len(gmpData) :
           gmpData[i].symbol = gmpData[j].symbol => i = j
    /\ \A i \in 1 .. Len(gmpData) :
           LET rows == AcceptedAs(gmpPage, gmpData[i].symbol)
           IN  /\ rows # { }
               /\ gmpData[i] =
                      GmpExtract[gmpPage[CHOOSE k \in rows : \A m \in rows : k <= m]][1]
    /\ \A k \in 1 .. Len(gmpPage) :
           GmpExtract[gmpPage[k]] # << >> =>
               \E i \in 1 .. Len(gmpData) :
                   gmpData[i].symbol = GmpExtract[gmpPage[k]][1].symbol

C7_Witness ==
    /\ pcGmp = "returned"
    /\ Len(gmpData) = 1
    /\ \E k, m \in 1 .. Len(gmpPage) :
           /\ k < m
           /\ GmpExtract[gmpPage[k]] # << >>
           /\ GmpExtract[gmpPage[m]] # << >>
           /\ GmpExtract[gmpPage[k]][1].symbol = GmpExtract[gmpPage[m]][1].symbol
           /\ GmpExtract[gmpPage[k]][1].gmp # GmpExtract[gmpPage[m]][1].gmp
           /\ gmpData[1] = GmpExtract[gmpPage[k]][1]

\* the symbol has 3 to 12 characters, each of A-Z or 0-9
WellFormedSymbol(symbol) ==
    /\ Len(symbol) >= 3
    /\ Len(symbol) <= 12
    /\ \A i \in 1 .. Len(symbol) : symbol[i] \in Upper \cup Digit

\* C8: every RawListing emitted by either template of scrapeMainboardIPOs has
\* a symbol of 3 to 12 characters of A-Z and 0-9; a row whose derived symbol
\* has fewer than 3 characters is discarded.
C8_SymbolWellFormed ==
    rowOut.done =>
        /\ \A i \in 1 .. Len(rowOut.primary) : WellFormedSymbol(rowOut.primary[i].raw.symbol)
        /\ \A i \in 1 .. Len(rowOut.fallback) : WellFormedSymbol(rowOut.fallback[i].raw.symbol)
        /\ Len(rowOut.primarySym) < 3 => rowOut.primary = << >>
        /\ Len(rowOut.fallbackSym) < 3 => rowOut.fallback = << >>

C8_Witness ==
    /\ rowOut.done
    /\ rowOut.primary # << >>
    /\ rowOut.fallback # << >>
    /\ Len(rowOut.primary[1].raw.symbol) = 12
    /\ Len(rowOut.fallback[1].raw.symbol) = 12
    /\ Len(stripNonAlphaNum(rowIn.name)) > 12
    /\ \E i \in 1 .. Len(rowIn.name) : rowIn.name[i] \in Lower
    /\ \E i \in 1 .. Len(rowIn.name) : rowIn.name[i] \in Digit
    /\ \E i \in 1 .. Len(rowIn.name) : rowIn.name[i] = "."

\* C9, as claimed: no RawListing emitted by either template of
\* scrapeMainboardIPOs comes from a row whose name-cell text is header-like
\* (contains "company" or "ipo name", whatever the case).
C9_NoHeaderRowEmitted ==
    \A i \in 1 .. Len(ipos) : ~ headerLike(iposText[i])

\* C10, as claimed: the symbol the GMP extractor derives from a company name
\* N, and from N followed by " IPO", is the symbol each listings template
\* derives from N.
C10_SameSymbolRule ==
    rowOut.done =>
        /\ rowOut.gmpSym = rowOut.primarySym
        /\ rowOut.gmpSym = rowOut.fallbackSym
        /\ rowOut.gmpIpoSym = rowOut.primarySym
        /\ rowOut.gmpIpoSym = rowOut.fallbackSym

(***************************************************************************)
(* Dates: the date-range cell of the primary template, parseDate and        *)
(* determineStatus.                                                         *)
(***************************************************************************)
\* a character outside ASCII is written as its code point
EnDash == "U+2013"

ACircumflex == "U+00E2"

ACircumflexUpper == "U+00C2"

EuroSign == "U+20AC"

LeftDoubleQuote == "U+201C"

LowQuote == "U+201A"

SuperscriptOne == "U+00B9"

RupeeSign == "U+20B9"

Letter == Lower \cup Upper

\* length of the run of letters at the start of s: what [a-zA-Z]+ consumes
RECURSIVE LetterRun(_)
LetterRun(s) ==
    IF s # << >> /\ Head(s) \in Letter THEN 1 + LetterRun(Tail(s)) ELSE 0

\* the characters of the class in datesCell.split(/[-...to]/i): the hyphen,
\* the three characters the source file holds between the hyphen and "to"
\* (a-circumflex, euro sign, left double quotation mark), "t" and "o", in
\* either case
DateSplitClass ==
    { "-", ACircumflex, ACircumflexUpper, EuroSign, LeftDoubleQuote, "t", "T", "o", "O" }

\* String.prototype.split with a separator that matches one character of cls
RECURSIVE split(_, _)
split(s, cls) ==
    IF \E i \in 1 .. Len(s) : s[i] \in cls
    THEN LET i == CHOOSE j \in 1 .. Len(s) :
                      s[j] \in cls /\ \A k \in 1 .. (j - 1) : s[k] \notin cls
         IN  << SubSeq(s, 1, i - 1) >> \o split(Drop(s, i + 1), cls)
    ELSE << s >>

\* datesCell.split(/[-...to]/i).map(d => d.trim())
dateParts(datesCell) ==
    LET parts == split(datesCell, DateSplitClass)
    IN  [i \in 1 .. Len(parts) |-> trim(parts[i])]

\* dateParts[0] || ""
openDateStr(datesCell) == dateParts(datesCell)[1]

\* dateParts[1] || dateParts[0] || ""
closeDateStr(datesCell) ==
    LET parts == dateParts(datesCell)
    IN  IF Len(parts) >= 2 /\ parts[2] # << >> THEN parts[2] ELSE parts[1]

Tba == << "t", "b", "a" >>

\* the object literal months of parseDate
months ==
    << [key |-> << "j", "a", "n" >>, value |-> << "0", "1" >>],
       [key |-> << "j", "a", "n", "u", "a", "r", "y" >>, value |-> << "0", "1" >>],
       [key |-> << "f", "e", "b" >>, value |-> << "0", "2" >>],
       [key |-> << "f", "e", "b", "r", "u", "a", "r", "y" >>, value |-> << "0", "2" >>],
       [key |-> << "m", "a", "r" >>, value |-> << "0", "3" >>],
       [key |-> << "m", "a", "r", "c", "h" >>, value |-> << "0", "3" >>],
       [key |-> << "a", "p", "r" >>, value |-> << "0", "4" >>],
       [key |-> << "a", "p", "r", "i", "l" >>, value |-> << "0", "4" >>],
       [key |-> << "m", "a", "y" >>, value |-> << "0", "5" >>],
       [key |-> << "j", "u", "n" >>, value |-> << "0", "6" >>],
       [key |-> << "j", "u", "n", "e" >>, value |-> << "0", "6" >>],
       [key |-> << "j", "u", "l" >>, value |-> << "0", "7" >>],
       [key |-> << "j", "u", "l", "y" >>, value |-> << "0", "7" >>],
       [key |-> << "a", "u", "g" >>, value |-> << "0", "8" >>],
       [key |-> << "a", "u", "g", "u", "s", "t" >>, value |-> << "0", "8" >>],
       [key |-> << "s", "e", "p" >>, value |-> << "0", "9" >>],
       [key |-> << "s", "e", "p", "t" >>, value |-> << "0", "9" >>],
       [key |-> << "s", "e", "p", "t", "e", "m", "b", "e", "r" >>, value |-> << "0", "9" >>],
       [key |-> << "o", "c", "t" >>, value |-> << "1", "0" >>],
       [key |-> << "o", "c", "t", "o", "b", "e", "r" >>, value |-> << "1", "0" >>],
       [key |-> << "n", "o", "v" >>, value |-> << "1", "1" >>],
       [key |-> << "n", "o", "v", "e", "m", "b", "e", "r" >>, value |-> << "1", "1" >>],
       [key |-> << "d", "e", "c" >>, value |-> << "1", "2" >>],
       [key |-> << "d", "e", "c", "e", "m", "b", "e", "r" >>, value |-> << "1", "2" >>] >>

Constructor == << "c", "o", "n", "s", "t", "r", "u", "c", "t", "o", "r" >>

\* String(Object), what a template literal makes of Object.prototype.constructor
ObjectFunctionText ==
    << "f", "u", "n", "c", "t", "i", "o", "n", " ", "O", "b", "j", "e", "c", "t", "(", ")", " ", "{", " ", "[", "n", "a", "t", "i", "v", "e", " ", "c", "o", "d", "e", "]", " ", "}" >>

\* months[monthKey]: an own property of the literal, else a property the
\* literal inherits from Object.prototype (the only inherited name made of
\* lower-case letters alone is constructor), else undefined
monthsGet(monthKey) ==
    IF \E i \in 1 .. Len(months) : months[i].key = monthKey
    THEN Some(months[CHOOSE i \in 1 .. Len(months) : months[i].key = monthKey].value)
    ELSE IF monthKey = Constructor THEN Some(ObjectFunctionText) ELSE Null

\* .padStart(2, "0")
padStart2(s) == IF Len(s) < 2 THEN << "0" >> \o s ELSE s

\* .replace(/\s+/g, " ")
RECURSIVE collapseSpaces(_)
collapseSpaces(s) ==
    IF s = << >> THEN << >>
    ELSE IF Head(s) \in WhiteSpace
         THEN << " " >> \o collapseSpaces(Drop(s, SpaceRun(s) + 1))
         ELSE << Head(s) >> \o collapseSpaces(Tail(s))

\* /(\d{1,2})\s*([a-zA-Z]+)\s*,?\s*(\d{4})/ matched at the start of s: the
\* groups, Null if it does not match there.  Every quantifier is followed by
\* a class disjoint from its own, so the greedy choice is the only one.
dateMatchAt(s) ==
    LET dayLen == IF DigitRun(s) >= 2 THEN 2 ELSE DigitRun(s)
        afterDay == Drop(s, dayLen + 1)
        atWord == Drop(afterDay, SpaceRun(afterDay) + 1)
        wordLen == LetterRun(atWord)
        afterWord == Drop(atWord, wordLen + 1)
        atComma == Drop(afterWord, SpaceRun(afterWord) + 1)
        afterComma == IF atComma # << >> /\ Head(atComma) = "," THEN Tail(atComma) ELSE atComma
        atYear == Drop(afterComma, SpaceRun(afterComma) + 1)
    IN  IF dayLen >= 1 /\ wordLen >= 1 /\ DigitRun(atYear) >= 4
        THEN Some([day |-> SubSeq(s, 1, dayLen),
                   word |-> SubSeq(atWord, 1, wordLen),
                   year |-> SubSeq(atYear, 1, 4)])
        ELSE Null

\* cleaned.match(...): the leftmost match
RECURSIVE dateMatch(_)
dateMatch(s) ==
    IF s = << >> THEN Null
    ELSE IF dateMatchAt(s) # Null THEN dateMatchAt(s) ELSE dateMatch(Tail(s))

\* /(\d{4})-(\d{2})-(\d{2})/ matched at the start of s
isoMatchAt(s) ==
    /\ Len(s) >= 10
    /\ \A i \in { 1, 2, 3, 4, 6, 7, 9, 10 } : s[i] \in Digit
    /\ s[5] = "-"
    /\ s[8] = "-"

\* cleaned.match(/(\d{4})-(\d{2})-(\d{2})/) is not null
simpleMatch(s) == \E i \in 1 .. Len(s) : isoMatchAt(Drop(s, i))

\* dateStr.trim().replace(/\s+/g, " ")
cleanDate(dateStr) == collapseSpaces(trim(dateStr))

Hyphen == << "-" >>

\* parseDate that echoes the cleaned text where no pattern matches
parseDateEcho(dateStr) ==
    IF dateStr = << >> \/ toLowerCase(dateStr) = Tba \/ dateStr = Hyphen
    THEN Null
    ELSE LET cleaned == cleanDate(dateStr)
             match == dateMatch(cleaned)
             month == IF match # Null
                      THEN monthsGet(toLowerCase(ValueOf(match).word))
                      ELSE Null
         IN  IF month # Null
             THEN Some(ValueOf(match).year \o Hyphen \o ValueOf(month) \o Hyphen
                       \o padStart2(ValueOf(match).day))
             ELSE Some(cleaned)

\* parseDate: Null or the string returned
parseDate(dateStr) ==
    IF dateStr = << >> \/ toLowerCase(dateStr) = Tba \/ dateStr = Hyphen
    THEN Null
    ELSE LET cleaned == cleanDate(dateStr)
             match == dateMatch(cleaned)
             month == IF match # Null
                      THEN monthsGet(toLowerCase(ValueOf(match).word))
                      ELSE Null
         IN  IF month # Null
             THEN Some(ValueOf(match).year \o Hyphen \o ValueOf(month) \o Hyphen
                       \o padStart2(ValueOf(match).day))
             ELSE IF simpleMatch(cleaned) THEN Some(cleaned) ELSE Null

(***************************************************************************)
(* The date-range cell alone: one drawn cell of the primary template, put   *)
(* through lines 516-525 of the row callback.                               *)
(***************************************************************************)
\* dates written <day> <month-name> <year>
DateTexts ==
    { << "1", "2", " ", "J", "a", "n", " ", "2", "0", "2", "4" >>,
      << "1", "5", " ", "J", "a", "n", " ", "2", "0", "2", "4" >>,
      << "5", " ", "O", "c", "t", " ", "2", "0", "2", "4" >>,
      << "9", " ", "N", "o", "v", " ", "2", "0", "2", "4" >>,
      << "3", " ", "A", "u", "g", "u", "s", "t", " ", "2", "0", "2", "4" >>,
      << "2", "8", " ", "F", "e", "b", " ", "2", "0", "2", "5" >> }

\* " - ", " <en-dash> " and " to "
RangeSeparators ==
    { << " ", "-", " " >>, << " ", EnDash, " " >>, << " ", "t", "o", " " >> }

DateCells ==
    DateTexts \cup { d1 \o sep \o d2 : d1 \in DateTexts, sep \in RangeSeparators, d2 \in DateTexts }

InitSplit ==
    /\ InitRun
    /\ rowIn = NoRow
    /\ rowOut = NoOut
    /\ callIn \in [fn : { "dateRange" }, text : DateCells]
    /\ callOut = NoOut

SplitDates ==
    /\ callIn.fn = "dateRange"
    /\ callOut = NoOut
    /\ LET datesCell == trim(callIn.text)
       IN  callOut' = [done |-> TRUE,
                       openDateStr |-> openDateStr(datesCell),
                       closeDateStr |-> closeDateStr(datesCell),
                       openDate |-> parseDate(openDateStr(datesCell)),
                       closeDate |-> parseDate(closeDateStr(datesCell))]
    /\ UNCHANGED << runVars, rowIn, rowOut, callIn >>

NextSplit == SplitDates

SpecSplit == InitSplit /\ [][NextSplit]_vars

\* C11: in the primary template a date-range cell "D1 - D2", "D1 <en-dash> D2"
\* or "D1 to D2" is split into the open text D1 and the close text D2, never
\* inside D1 or D2, and a cell holding the single date D1 gives D1 for both.
C11_RangeSplitAtSeparator ==
    (callOut.done /\ callIn.fn = "dateRange") =>
        \A d1 \in DateTexts :
            /\ callIn.text = d1 =>
                   callOut.openDateStr = d1 /\ callOut.closeDateStr = d1
            /\ \A sep \in RangeSeparators, d2 \in DateTexts :
                   callIn.text = d1 \o sep \o d2 =>
                       callOut.openDateStr = d1 /\ callOut.closeDateStr = d2

(***************************************************************************)
(* parseDate alone: one drawn string, parsed.                               *)
(***************************************************************************)
DayTexts == { << "5" >>, << "1", "2" >> }

MonthWords ==
    { << "N", "o", "v" >>,
      << "N", "O", "V" >>,
      << "N", "o", "v", "e", "m", "b", "e", "r" >>,
      << "S", "e", "p", "t" >>,
      << "M", "a", "y" >>,
      << "F", "o", "o" >>,
      << "c", "o", "n", "s", "t", "r", "u", "c", "t", "o", "r" >>,
      << "C", "o", "n", "s", "t", "r", "u", "c", "t", "o", "r" >> }

YearTexts == { << "2", "0", "2", "4" >>, << "1", "9", "9", "9" >> }

\* what stands between the day and the month word
DayGaps == { << >>, << " " >> }

\* what stands between the month word and the year
YearGaps == { << " " >>, << "," >>, << ",", " " >> }

\* <day> <month-name>[,] <year>
dayMonthYear(day, gap1, word, gap2, year) == day \o gap1 \o word \o gap2 \o year

DayMonthYearTexts ==
    { dayMonthYear(day, gap1, word, gap2, year) :
          day \in DayTexts, gap1 \in DayGaps, word \in MonthWords,
          gap2 \in YearGaps, year \in YearTexts }

OtherDateTexts ==
    { << >>,
      << "t", "b", "a" >>,
      << "T", "B", "A" >>,
      << "T", "b", "a" >>,
      << "t", "B", "a" >>,
      << "-" >>,
      << " ", "-", " " >>,
      << "2", "0", "2", "4", "-", "1", "1", "-", "1", "2" >>,
      << " ", "2", "0", "2", "4", "-", "1", "1", "-", "1", "2", " " >>,
      << "2", "0", "2", "4", "-", "1", "1", "-", "1", "2", " ", "(", "t", "e", "n", "t", "a", "t", "i", "v", "e", ")" >>,
      << "x", "2", "0", "2", "4", "-", "1", "1", "-", "1", "2", "3" >>,
      << "1", "2", "/", "1", "1", "/", "2", "0", "2", "4" >>,
      << "s", "o", "o", "n" >>,
      << "1", "2", " ", " ", "N", "o", "v", " ", "\t", " ", "2", "0", "2", "4" >>,
      << "1", "1", "2", " ", "N", "o", "v", " ", "2", "0", "2", "4", "5" >>,
      << "1", "2", " ", "F", "o", "o", " ", "2", "0", "2", "4", " ", "2", "0", "2", "4", "-", "1", "1", "-", "1", "2" >>,
      << "2", "0", "2", "4", "-", "1", "-", "2" >>,
      << "t", "b", "a", " ", "2", "0", "2", "4" >>,
      << "N", "o", "v", " ", "2", "0", "2", "4" >>,
      << "1", "2", " ", "2", "0", "2", "4" >>,
      << "L", "i", "s", "t", "i", "n", "g", " ", "o", "n", " ", "2", "0", "2", "4", "-", "1", "1", "-", "1", "2" >> }

DateStrings == DayMonthYearTexts \cup OtherDateTexts

InitDate ==
    /\ InitRun
    /\ rowIn = NoRow
    /\ rowOut = NoOut
    /\ callIn \in [fn : { "parseDate" }, text : DateStrings]
    /\ callOut = NoOut

ParseDate ==
    /\ callIn.fn = "parseDate"
    /\ callOut = NoOut
    /\ callOut' = [done |-> TRUE, result |-> parseDate(callIn.text)]
    /\ UNCHANGED << runVars, rowIn, rowOut, callIn >>

NextDate == ParseDate

SpecDate == InitDate /\ [][NextDate]_vars

\* the canonical form YYYY-MM-DD: four digits, hyphen, two digits, hyphen,
\* two digits, nothing else
IsCanonicalDate(s) == Len(s) = 10 /\ isoMatchAt(s)

Parsed == callOut.done /\ callIn.fn = "parseDate"

\* C12: for every input string parseDate returns either null or a string of
\* exactly the canonical form YYYY-MM-DD.
C12_NullOrCanonical ==
    Parsed => (callOut.result = Null \/ IsCanonicalDate(ValueOf(callOut.result)))

\* the number of a month word of the fixed table, Null for any other word
MonthNumber(word) ==
    LET key == toLowerCase(word)
    IN  IF \E i \in 1 .. Len(months) : months[i].key = key
        THEN Some(months[CHOOSE i \in 1 .. Len(months) : months[i].key = key].value)
        ELSE Null

\* C13: an input <day> <month-name>[,] <year> whose month word is in the
\* table, in any casing, gives year-month-day with the two-digit month number
\* and the zero-padded day; if the month word is not in the table the rule
\* gives no result and the later rules apply (here: null, the input holding
\* no YYYY-MM-DD).
C13_DayMonthYearRule ==
    Parsed =>
        \A day \in DayTexts, gap1 \in DayGaps, word \in MonthWords,
           gap2 \in YearGaps, year \in YearTexts :
            callIn.text = dayMonthYear(day, gap1, word, gap2, year) =>
                IF MonthNumber(word) # Null
                THEN callOut.result = Some(year \o Hyphen \o ValueOf(MonthNumber(word))
                                           \o Hyphen \o padStart2(day))
                ELSE callOut.result = Null

\* C14: parseDate returns null for the empty string, for "tba" in any casing
\* and for "-", returns null for every input that matches neither date
\* pattern, and what it gives is always null or one string (nothing is thrown).
C14_NullOnUnknown ==
    Parsed =>
        /\ (callIn.text = << >> \/ toLowerCase(callIn.text) = Tba \/ callIn.text = Hyphen) =>
               callOut.result = Null
        /\ (dateMatch(callIn.text) = Null /\ ~simpleMatch(callIn.text)) =>
               callOut.result = Null
        /\ Cardinality(callOut.result) <= 1

C14_Witness ==
    /\ Parsed
    /\ callIn.text = << "1", "2", "/", "1", "1", "/", "2", "0", "2", "4" >>
    /\ callOut.result = Null

\* C15: parseDate is idempotent on its own output: an input already of the
\* form YYYY-MM-DD is returned unchanged, and a result r that is not null is
\* parsed to r again.
C15_Idempotent ==
    Parsed =>
        /\ IsCanonicalDate(callIn.text) => callOut.result = Some(callIn.text)
        /\ callOut.result # Null => parseDate(ValueOf(callOut.result)) = callOut.result

(***************************************************************************)
(* determineStatus alone: drawn dates, a drawn clock and a drawn time zone. *)
(* Instants are hours since the epoch (UTC).                                *)
(***************************************************************************)
\* days from 1970-01-01 to the civil date year-month-day
daysFromCivil(year, month, day) ==
    LET y == IF month <= 2 THEN year - 1 ELSE year
        era == y \div 400
        yoe == y - era * 400
        mp == (month + 9) % 12
        doy == (153 * mp + 2) \div 5 + day - 1
        doe == yoe * 365 + yoe \div 4 - yoe \div 100 + doy
    IN  era * 146097 + doe - 719468

\* new Date("YYYY-MM-DD"): a date-only string is midnight UTC of that day
newDate(text) ==
    24 * daysFromCivil(DigitsValue(SubSeq(text, 1, 4)),
                       DigitsValue(SubSeq(text, 6, 7)),
                       DigitsValue(SubSeq(text, 9, 10)))

\* the calendar day (days since the epoch) of the instant clock in the zone
\* that is offset hours east of UTC
localDay(clock, offset) == (clock + offset) \div 24

\* new Date() followed by setHours(0, 0, 0, 0): midnight of the current day
\* in the zone of the process
localMidnight(clock, offset) == 24 * localDay(clock, offset) - offset

\* determineStatus without the test of a null open date: new Date(null) is
\* the epoch
determineStatusNoNullTest(openDate, closeDate, clock, offset) ==
    LET today == localMidnight(clock, offset)
        open == IF openDate = Null THEN 0 ELSE newDate(ValueOf(openDate))
    IN  IF today < open THEN "upcoming"
        ELSE IF closeDate # Null /\ today > newDate(ValueOf(closeDate)) THEN "closed"
        ELSE IF today >= open /\ (closeDate = Null \/ today <= newDate(ValueOf(closeDate)))
             THEN "open"
             ELSE "upcoming"

\* determineStatus, the clock and the zone of the process being arguments
determineStatus(openDate, closeDate, clock, offset) ==
    IF openDate = Null THEN "upcoming"
    ELSE LET today == localMidnight(clock, offset)
             open == newDate(ValueOf(openDate))
         IN  IF today < open THEN "upcoming"
             ELSE IF closeDate # Null /\ today > newDate(ValueOf(closeDate)) THEN "closed"
             ELSE IF today >= open /\ (closeDate = Null \/ today <= newDate(ValueOf(closeDate)))
                  THEN "open"
                  ELSE "upcoming"

\* results of parseDate that are dates
StatusDates ==
    { << "2", "0", "2", "4", "-", "0", "2", "-", "2", "8" >>,
      << "2", "0", "2", "4", "-", "0", "2", "-", "2", "9" >>,
      << "2", "0", "2", "4", "-", "0", "3", "-", "0", "1" >>,
      << "2", "0", "2", "4", "-", "0", "3", "-", "0", "2" >> }

OptionalDates == { Null } \cup { Some(d) : d \in StatusDates }

\* the clock: some hours of the days 2024-02-27 .. 2024-03-03
ClockHours == { 0, 12, 23 }

Clocks == { 24 * (daysFromCivil(2024, 2, 27) + d) + h : d \in 0 .. 5, h \in ClockHours }

\* zones of the process, in hours east of UTC
ZoneOffsets == { -5, 0, 5 }

InitStatus ==
    /\ InitRun
    /\ rowIn = NoRow
    /\ rowOut = NoOut
    /\ callIn \in [fn : { "determineStatus" }, openDate : OptionalDates,
                   closeDate : OptionalDates, clock : Clocks, offset : ZoneOffsets]
    /\ callOut = NoOut

DetermineStatus ==
    /\ callIn.fn = "determineStatus"
    /\ callOut = NoOut
    /\ callOut' = [done |-> TRUE,
                   result |-> determineStatus(callIn.openDate, callIn.closeDate,
                                              callIn.clock, callIn.offset)]
    /\ UNCHANGED << runVars, rowIn, rowOut, callIn >>

NextStatus == DetermineStatus

SpecStatus == InitStatus /\ [][NextStatus]_vars

\* the day of a date, in days since the epoch
DayOf(text) == newDate(text) \div 24

\* C16: determineStatus returns "upcoming" if the open date is null or the
\* current day is before the open date, otherwise "closed" if a close date
\* exists and the current day is after it, otherwise "open"; the result is
\* never "closed" when the close date is unknown.
C16_StatusByDay ==
    (callOut.done /\ callIn.fn = "determineStatus") =>
        LET currentDay == localDay(callIn.clock, callIn.offset)
        IN  /\ callOut.result =
                   IF callIn.openDate = Null \/ currentDay < DayOf(ValueOf(callIn.openDate))
                   THEN "upcoming"
                   ELSE IF callIn.closeDate # Null /\ currentDay > DayOf(ValueOf(callIn.closeDate))
                        THEN "closed"
                        ELSE "open"
            /\ callIn.closeDate = Null => callOut.result # "closed"

(***************************************************************************)
(* detectSector.                                                            *)
(***************************************************************************)
\* the if statements of detectSector in source order: the label each
\* returns and the keywords it tests
sectorRules ==
    << [label |-> "Healthcare",
        keywords |-> << << "p", "h", "a", "r", "m", "a" >>,
                      << "h", "e", "a", "l", "t", "h" >>,
                      << "h", "o", "s", "p", "i", "t", "a", "l" >>,
                      << "m", "e", "d", "i", "c", "a", "l" >>,
                      << "n", "e", "p", "h", "r", "o" >>,
                      << "b", "i", "o" >> >>],
       [label |-> "Technology",
        keywords |-> << << "t", "e", "c", "h" >>,
                      << "s", "o", "f", "t", "w", "a", "r", "e" >>,
                      << "d", "i", "g", "i", "t", "a", "l" >>,
                      << "i", "n", "f", "o" >>,
                      << "i", "t", " " >>,
                      << "d", "a", "t", "a" >>,
                      << "a", "i" >>,
                      << "c", "l", "o", "u", "d" >> >>],
       [label |-> "Financial Services",
        keywords |-> << << "b", "a", "n", "k" >>,
                      << "f", "i", "n", "a", "n", "c", "e" >>,
                      << "c", "a", "p", "i", "t", "a", "l" >>,
                      << "f", "i", "n", "a", "n", "c", "i", "a", "l" >>,
                      << "i", "c", "i", "c", "i" >>,
                      << "h", "d", "f", "c" >>,
                      << "i", "n", "s", "u", "r", "a", "n", "c", "e" >>,
                      << "p", "r", "u", "d", "e", "n", "t" >> >>],
       [label |-> "Energy",
        keywords |-> << << "p", "o", "w", "e", "r" >>,
                      << "e", "n", "e", "r", "g", "y" >>,
                      << "s", "o", "l", "a", "r" >>,
                      << "e", "l", "e", "c", "t", "r", "i", "c" >>,
                      << "r", "e", "n", "e", "w", "a", "b", "l", "e" >>,
                      << "p", "h", "o", "t", "o", "v", "o", "l", "t", "a", "i", "c" >> >>],
       [label |-> "Consumer",
        keywords |-> << << "f", "o", "o", "d" >>,
                      << "c", "o", "n", "s", "u", "m", "e", "r" >>,
                      << "r", "e", "t", "a", "i", "l" >>,
                      << "m", "a", "r", "t" >>,
                      << "s", "t", "o", "r", "e" >> >>],
       [label |-> "Infrastructure",
        keywords |-> << << "i", "n", "f", "r", "a" >>,
                      << "c", "o", "n", "s", "t", "r", "u", "c", "t", "i", "o", "n" >>,
                      << "r", "e", "a", "l" >>,
                      << "c", "e", "m", "e", "n", "t" >>,
                      << "s", "t", "e", "e", "l" >> >>],
       [label |-> "Logistics & Transport",
        keywords |-> << << "a", "u", "t", "o" >>,
                      << "m", "o", "t", "o", "r" >>,
                      << "v", "e", "h", "i", "c", "l", "e" >>,
                      << "l", "o", "g", "i", "s", "t", "i", "c", "s" >>,
                      << "t", "r", "a", "n", "s", "p", "o", "r", "t" >>,
                      << "s", "h", "a", "d", "o", "w", "f", "a", "x" >> >>],
       [label |-> "Media & Entertainment",
        keywords |-> << << "m", "e", "d", "i", "a" >>,
                      << "e", "n", "t", "e", "r", "t", "a", "i", "n" >>,
                      << "b", "r", "o", "a", "d", "c", "a", "s", "t" >>,
                      << "a", "m", "a", "g", "i" >> >>],
       [label |-> "Chemicals & Materials",
        keywords |-> << << "c", "h", "e", "m", "i", "c", "a", "l" >>,
                      << "m", "a", "t", "e", "r", "i", "a", "l" >>,
                      << "m", "e", "t", "a", "l" >> >>],
       [label |-> "Education & Technology",
        keywords |-> << << "e", "d", "u", "c", "a", "t", "i", "o", "n" >>,
                      << "l", "e", "a", "r", "n" >>,
                      << "p", "h", "y", "s", "i", "c", "s" >>,
                      << "s", "c", "h", "o", "o", "l" >>,
                      << "c", "a", "p", "i", "l", "l", "a", "r", "y" >>,
                      << "e", "x", "c", "e", "l" >> >>] >>

\* the condition of the i-th if statement: name.includes(k) for one of its
\* keywords k
sectorTest(name, i) ==
    \E k \in 1 .. Len(sectorRules[i].keywords) : includes(name, sectorRules[i].keywords[k])

\* detectSector that lets the last passing if statement win
detectSectorLast(companyName) ==
    LET name == toLowerCase(companyName)
    IN  IF \E i \in 1 .. Len(sectorRules) : sectorTest(name, i)
        THEN sectorRules[CHOOSE i \in 1 .. Len(sectorRules) :
                             /\ sectorTest(name, i)
                             /\ \A j \in (i + 1) .. Len(sectorRules) : ~sectorTest(name, j)].label
        ELSE "Industrial"

\* detectSector: the label of the first if statement whose condition holds
detectSector(companyName) ==
    LET name == toLowerCase(companyName)
    IN  IF \E i \in 1 .. Len(sectorRules) : sectorTest(name, i)
        THEN sectorRules[CHOOSE i \in 1 .. Len(sectorRules) :
                             /\ sectorTest(name, i)
                             /\ \A j \in 1 .. (i - 1) : ~sectorTest(name, j)].label
        ELSE "Industrial"

(***************************************************************************)
(* detectSector alone: one drawn company name, classified.                  *)
(***************************************************************************)
SectorWords ==
    { << "P", "h", "a", "r", "m", "a" >>,
      << "T", "E", "C", "H" >>,
      << "H", "d", "f", "c" >>,
      << "B", "a", "n", "k" >>,
      << "S", "o", "l", "a", "r" >>,
      << "F", "o", "o", "d" >>,
      << "R", "e", "t", "a", "i", "l" >>,
      << "I", "n", "f", "r", "a" >>,
      << "M", "o", "t", "o", "r", "s" >>,
      << "M", "e", "d", "i", "a" >>,
      << "M", "e", "t", "a", "l" >>,
      << "S", "c", "h", "o", "o", "l" >>,
      << "I", "T" >>,
      << "L", "t", "d" >>,
      << "Z", "i", "n", "k", "a" >>,
      << "S", "t", "e", "e", "l" >> }

\* names of one word and of two words
SectorNames == SectorWords \cup { a \o << " " >> \o b : a \in SectorWords, b \in SectorWords }

InitSector ==
    /\ InitRun
    /\ rowIn = NoRow
    /\ rowOut = NoOut
    /\ callIn \in [fn : { "detectSector" }, text : SectorNames]
    /\ callOut = NoOut

DetectSector ==
    /\ callIn.fn = "detectSector"
    /\ callOut = NoOut
    /\ callOut' = [done |-> TRUE, result |-> detectSector(callIn.text)]
    /\ UNCHANGED << runVars, rowIn, rowOut, callIn >>

NextSector == DetectSector

SpecSector == InitSector /\ [][NextSector]_vars

\* the ten sectors in the order of the claim
SectorOrder ==
    << "Healthcare", "Technology", "Financial Services", "Energy", "Consumer",
       "Infrastructure", "Logistics & Transport", "Media & Entertainment",
       "Chemicals & Materials", "Education & Technology" >>

\* a keyword of the sector is a case-insensitive substring of the name
SectorMatches(text, sector) ==
    \E i \in 1 .. Len(sectorRules) :
        /\ sectorRules[i].label = sector
        /\ \E k \in 1 .. Len(sectorRules[i].keywords) :
               \E from \in 1 .. Len(text) :
                   IsPrefixCI(sectorRules[i].keywords[k], Drop(text, from))

\* C17: detectSector returns the first sector, in the fixed order, one of
\* whose keywords is a case-insensitive substring of the company name; a name
\* matching several sectors gets the earliest, a name matching none gets
\* "Industrial", and the result is one of the eleven labels.
C17_FirstSectorInOrder ==
    (callOut.done /\ callIn.fn = "detectSector") =>
        /\ callOut.result \in { SectorOrder[i] : i \in 1 .. Len(SectorOrder) } \cup { "Industrial" }
        /\ \A i \in 1 .. Len(SectorOrder) :
               (/\ SectorMatches(callIn.text, SectorOrder[i])
                /\ \A j \in 1 .. (i - 1) : ~SectorMatches(callIn.text, SectorOrder[j]))
                   => callOut.result = SectorOrder[i]
        /\ (\A i \in 1 .. Len(SectorOrder) : ~SectorMatches(callIn.text, SectorOrder[i]))
               => callOut.result = "Industrial"

\* "Bank TECH" holds keywords of Technology and of Financial Services
C17_Witness ==
    /\ callOut.done
    /\ callIn.fn = "detectSector"
    /\ callIn.text = << "B", "a", "n", "k", " ", "T", "E", "C", "H" >>
    /\ SectorMatches(callIn.text, "Financial Services")
    /\ SectorMatches(callIn.text, "Technology")
    /\ callOut.result = "Technology"

(***************************************************************************)
(* generateFinancialMetrics.  Every number of it is held in tenths: 25 is   *)
(* 250, 0.5 is 5.                                                           *)
(***************************************************************************)
\* the object literal sectorDefaults, in tenths
sectorDefaults ==
    << [sector |-> "Technology",
        revenueGrowth |-> << 250, 600 >>,
        ebitdaMargin |-> << 150, 350 >>,
        patMargin |-> << 80, 250 >>,
        roe |-> << 120, 300 >>,
        roce |-> << 140, 350 >>,
        debtToEquity |-> << 0, 5 >>,
        peRatio |-> << 250, 600 >>,
        sectorPeMedian |-> 350],
       [sector |-> "Financial Services",
        revenueGrowth |-> << 150, 350 >>,
        ebitdaMargin |-> << 200, 450 >>,
        patMargin |-> << 120, 300 >>,
        roe |-> << 120, 220 >>,
        roce |-> << 100, 180 >>,
        debtToEquity |-> << 5, 20 >>,
        peRatio |-> << 150, 350 >>,
        sectorPeMedian |-> 220],
       [sector |-> "Healthcare",
        revenueGrowth |-> << 120, 300 >>,
        ebitdaMargin |-> << 150, 300 >>,
        patMargin |-> << 80, 200 >>,
        roe |-> << 120, 250 >>,
        roce |-> << 140, 280 >>,
        debtToEquity |-> << 2, 10 >>,
        peRatio |-> << 200, 450 >>,
        sectorPeMedian |-> 300],
       [sector |-> "Energy",
        revenueGrowth |-> << 200, 500 >>,
        ebitdaMargin |-> << 120, 280 >>,
        patMargin |-> << 60, 180 >>,
        roe |-> << 100, 220 >>,
        roce |-> << 120, 250 >>,
        debtToEquity |-> << 5, 15 >>,
        peRatio |-> << 150, 350 >>,
        sectorPeMedian |-> 250],
       [sector |-> "Logistics & Transport",
        revenueGrowth |-> << 180, 450 >>,
        ebitdaMargin |-> << 80, 200 >>,
        patMargin |-> << 40, 120 >>,
        roe |-> << 100, 250 >>,
        roce |-> << 120, 280 >>,
        debtToEquity |-> << 3, 12 >>,
        peRatio |-> << 180, 400 >>,
        sectorPeMedian |-> 280],
       [sector |-> "Consumer",
        revenueGrowth |-> << 100, 250 >>,
        ebitdaMargin |-> << 100, 250 >>,
        patMargin |-> << 50, 150 >>,
        roe |-> << 120, 280 >>,
        roce |-> << 140, 300 >>,
        debtToEquity |-> << 2, 8 >>,
        peRatio |-> << 200, 450 >>,
        sectorPeMedian |-> 320],
       [sector |-> "default",
        revenueGrowth |-> << 100, 350 >>,
        ebitdaMargin |-> << 100, 250 >>,
        patMargin |-> << 50, 180 >>,
        roe |-> << 100, 220 >>,
        roce |-> << 120, 250 >>,
        debtToEquity |-> << 3, 12 >>,
        peRatio |-> << 150, 400 >>,
        sectorPeMedian |-> 250] >>

\* sectorDefaults[sector] || sectorDefaults.default
defaultsOf(sector) ==
    IF \E i \in 1 .. Len(sectorDefaults) : sectorDefaults[i].sector = sector
    THEN sectorDefaults[CHOOSE i \in 1 .. Len(sectorDefaults) : sectorDefaults[i].sector = sector]
    ELSE sectorDefaults[CHOOSE i \in 1 .. Len(sectorDefaults) : sectorDefaults[i].sector = "default"]

\* Math.round(num / den) for num >= 0 and den > 0: the nearest integer, a
\* half rounded up
mathRound(num, den) == (2 * num + den) \div (2 * den)

\* rand without the subtraction of min: Math.random() * max + min
randUnscaled(min, max, k) == mathRound(min * RandSteps + k * max, RandSteps)

\* rand(min, max) of generateFinancialMetrics, Math.random() being
\* k / RandSteps: Math.round((Math.random() * (max - min) + min) * 10) / 10,
\* in tenths
rand(min, max, k) == mathRound(min * RandSteps + k * (max - min), RandSteps)

\* the ways a product that lies exactly half-way between two tenths can be
\* rounded: the double that stands for it may lie on either side of the half
HalfWays == { "up", "down" }

\* postIpoPromoterHolding without the factor 0.3
postIpoPromoterHoldingFullOfs(promoterHolding, ofsRatio, half) ==
    mathRound(promoterHolding * (100 - 10 * ofsRatio), 100)

\* Math.round(promoterHolding * (1 - ofsRatio * 0.3) * 10) / 10, in tenths:
\* with p and o the tenths, p / 10 * (1 - o / 10 * 0.3) * 10 is
\* p * (100 - 3 * o) / 100
postIpoPromoterHolding(promoterHolding, ofsRatio, half) ==
    LET num == promoterHolding * (100 - 3 * ofsRatio)
    IN  IF num % 100 = 50 /\ half = "down" THEN num \div 100 ELSE mathRound(num, 100)

\* the fields of the bundle that are drawn in a sector range
RangedFields ==
    << "revenueGrowth", "ebitdaMargin", "patMargin", "roe", "roce", "debtToEquity", "peRatio" >>

\* generateFinancialMetrics(sector); draw[i] is the i-th value of
\* Math.random() that enters the fields kept here (pbRatio and freshIssue
\* are not kept), half the way a half-way product is rounded
generateFinancialMetrics(sector, draw, half) ==
    LET defaults == defaultsOf(sector)
        ofsRatio == rand(1, 5, draw[8])
        promoterHolding == rand(550, 850, draw[9])
    IN  [revenueGrowth |-> rand(defaults.revenueGrowth[1], defaults.revenueGrowth[2], draw[1]),
         ebitdaMargin |-> rand(defaults.ebitdaMargin[1], defaults.ebitdaMargin[2], draw[2]),
         patMargin |-> rand(defaults.patMargin[1], defaults.patMargin[2], draw[3]),
         roe |-> rand(defaults.roe[1], defaults.roe[2], draw[4]),
         roce |-> rand(defaults.roce[1], defaults.roce[2], draw[5]),
         debtToEquity |-> rand(defaults.debtToEquity[1], defaults.debtToEquity[2], draw[6]),
         peRatio |-> rand(defaults.peRatio[1], defaults.peRatio[2], draw[7]),
         sectorPeMedian |-> defaults.sectorPeMedian,
         ofsRatio |-> ofsRatio,
         promoterHolding |-> promoterHolding,
         postIpoPromoterHolding |-> postIpoPromoterHolding(promoterHolding, ofsRatio, half)]

(***************************************************************************)
(* generateFinancialMetrics alone: one drawn sector label and the drawn     *)
(* values of Math.random().                                                 *)
(***************************************************************************)
\* the labels detectSector returns
SectorLabels == { sectorRules[i].label : i \in 1 .. Len(sectorRules) } \cup { "Industrial" }

InitMetrics ==
    /\ InitRun
    /\ rowIn = NoRow
    /\ rowOut = NoOut
    /\ callIn \in [fn : { "generateFinancialMetrics" }, sector : SectorLabels,
                   draw : [1 .. 9 -> RandomDraws]]
    /\ callOut = NoOut

GenerateFinancialMetrics ==
    /\ callIn.fn = "generateFinancialMetrics"
    /\ callOut = NoOut
    /\ \E half \in HalfWays :
           callOut' = [done |-> TRUE,
                       result |-> generateFinancialMetrics(callIn.sector, callIn.draw, half)]
    /\ UNCHANGED << runVars, rowIn, rowOut, callIn >>

NextMetrics == GenerateFinancialMetrics

SpecMetrics == InitMetrics /\ [][NextMetrics]_vars

Generated == callOut.done /\ callIn.fn = "generateFinancialMetrics"

\* the table entry of a sector label: its own, the default one if it has none
EntryOf(sector) ==
    LET own == { i \in 1 .. Len(sectorDefaults) : sectorDefaults[i].sector = sector }
        fallback == { i \in 1 .. Len(sectorDefaults) : sectorDefaults[i].sector = "default" }
    IN  sectorDefaults[CHOOSE i \in (IF own # { } THEN own ELSE fallback) : TRUE]

\* C18: for every sector label each of revenueGrowth, ebitdaMargin, patMargin,
\* roe, roce, debtToEquity and peRatio of the bundle lies in the closed range
\* of the sector's table entry (the default entry when the sector has none),
\* rounding to one decimal included, and sectorPeMedian is the constant of
\* that entry.
C18_MetricsWithinSectorRange ==
    Generated =>
        /\ \A i \in 1 .. Len(RangedFields) :
               /\ EntryOf(callIn.sector)[RangedFields[i]][1] <= callOut.result[RangedFields[i]]
               /\ callOut.result[RangedFields[i]] <= EntryOf(callIn.sector)[RangedFields[i]][2]
        /\ callOut.result.sectorPeMedian = EntryOf(callIn.sector).sectorPeMedian

\* a sector without an entry of its own, some draw above zero
C18_Witness ==
    /\ Generated
    /\ callIn.sector = "Infrastructure"
    /\ callIn.draw[6] > 0
    /\ callOut.result.debtToEquity > 3
    /\ callOut.result.sectorPeMedian = 250

\* C19: postIpoPromoterHolding of a bundle is promoterHolding * (1 - ofsRatio
\* * 0.3) rounded to one decimal (a tenth nearest to the product), for the
\* promoterHolding and ofsRatio of the same bundle, and so never exceeds
\* promoterHolding.
C19_PostIpoPromoterHolding ==
    Generated =>
        LET p == callOut.result.promoterHolding
            o == callOut.result.ofsRatio
            post == callOut.result.postIpoPromoterHolding
        IN  /\ 100 * post - 50 <= p * (100 - 3 * o)
            /\ p * (100 - 3 * o) <= 100 * post + 50
            /\ post <= p

\* a bundle whose product is not a whole number of tenths
C19_Witness ==
    /\ Generated
    /\ (callOut.result.promoterHolding * (100 - 3 * callOut.result.ofsRatio)) % 100 # 0
    /\ callOut.result.postIpoPromoterHolding < callOut.result.promoterHolding

(***************************************************************************)
(* extractPriceFromRange and the minimum investment.  A price is held in    *)
(* hundredths: 95.50 is 9550.                                               *)
(***************************************************************************)
\* the three characters the source file holds where a rupee sign was meant
RupeeText == << ACircumflex, LowQuote, SuperscriptOne >>

\* /...?\s*(\d+(?:,\d+)?(?:\.\d+)?)/ matched at the start of s, the pattern
\* beginning with the first two characters of RupeeText and the third one
\* made optional by "?": the length of the match, 0 if there is none
priceMatchAt(s) ==
    IF Len(s) >= 2 /\ s[1] = ACircumflex /\ s[2] = LowQuote
    THEN LET sign == IF Len(s) >= 3 /\ s[3] = SuperscriptOne THEN 3 ELSE 2
             atDigits == sign + SpaceRun(Drop(s, sign + 1))
             whole == DigitRun(Drop(s, atDigits + 1))
             afterWhole == Drop(s, atDigits + whole + 1)
             group == IF afterWhole # << >> /\ Head(afterWhole) = "," /\ DigitRun(Tail(afterWhole)) > 0
                      THEN 1 + DigitRun(Tail(afterWhole))
                      ELSE 0
             afterGroup == Drop(afterWhole, group + 1)
             fraction == IF afterGroup # << >> /\ Head(afterGroup) = "." /\ DigitRun(Tail(afterGroup)) > 0
                         THEN 1 + DigitRun(Tail(afterGroup))
                         ELSE 0
         IN  IF whole > 0 THEN atDigits + whole + group + fraction ELSE 0
    ELSE 0

\* priceRange.match(/.../g): every match, from left to right
RECURSIVE priceMatches(_)
priceMatches(s) ==
    IF s = << >> THEN << >>
    ELSE IF priceMatchAt(s) > 0
         THEN << SubSeq(s, 1, priceMatchAt(s)) >> \o priceMatches(Drop(s, priceMatchAt(s) + 1))
         ELSE priceMatches(Tail(s))

\* .replace(/[...,\s]/g, "") with the three characters of RupeeText in the class
RECURSIVE stripPriceMarks(_)
stripPriceMarks(s) ==
    IF s = << >> THEN << >>
    ELSE IF Head(s) \in { ACircumflex, LowQuote, SuperscriptOne, "," } \cup WhiteSpace
         THEN stripPriceMarks(Tail(s))
         ELSE << Head(s) >> \o stripPriceMarks(Tail(s))

\* parseFloat of digits with an optional fraction of one or two digits, in
\* hundredths
parseFloat(s) ==
    LET whole == DigitRun(s)
        rest == Drop(s, whole + 1)
        digits == IF rest # << >> /\ Head(rest) = "." THEN DigitRun(Tail(rest)) ELSE 0
        fraction == SubSeq(rest, 2, 1 + digits)
    IN  100 * DigitsValue(SubSeq(s, 1, whole))
        + (IF digits = 0 THEN 0
           ELSE IF digits = 1 THEN 10 * DigitsValue(fraction)
           ELSE DigitsValue(SubSeq(fraction, 1, 2)))

\* extractPriceFromRange: Null or the price, in hundredths
extractPriceFromRange(priceRange) ==
    LET match == priceMatches(priceRange)
    IN  IF Len(match) > 0
        THEN Some(parseFloat(stripPriceMarks(match[Len(match)])))
        ELSE Null

\* the decimal digits of a natural number
RECURSIVE digitsOf(_)
digitsOf(n) ==
    IF n < 10 THEN << DigitSeq[n + 1] >> ELSE digitsOf(n \div 10) \o << DigitSeq[(n % 10) + 1] >>

\* digits grouped in twos from the right
RECURSIVE groupTwos(_)
groupTwos(s) ==
    IF Len(s) <= 2 THEN s
    ELSE groupTwos(SubSeq(s, 1, Len(s) - 2)) \o << "," >> \o SubSeq(s, Len(s) - 1, Len(s))

\* (hundredths / 100).toLocaleString("en-IN"): the last three digits of the
\* whole part, the digits before them in groups of two, and the fraction
\* without trailing zeros
toLocaleString(hundredths) ==
    LET whole == digitsOf(hundredths \div 100)
        cents == hundredths % 100
        grouped == IF Len(whole) <= 3 THEN whole
                   ELSE groupTwos(SubSeq(whole, 1, Len(whole) - 3)) \o << "," >>
                        \o SubSeq(whole, Len(whole) - 2, Len(whole))
    IN  IF cents = 0 THEN grouped
        ELSE IF cents % 10 = 0 THEN grouped \o << "." >> \o digitsOf(cents \div 10)
        ELSE grouped \o << "." >> \o (IF cents < 10 THEN << "0" >> ELSE << >>) \o digitsOf(cents)

\* minInvestment of rawIpos.map: upperPrice && raw.lotSize ? ... : null
minInvestment(priceRange, lotSize) ==
    LET upperPrice == extractPriceFromRange(priceRange)
    IN  IF upperPrice # Null /\ ValueOf(upperPrice) # 0 /\ lotSize # 0
        THEN Some(RupeeText \o toLocaleString(ValueOf(upperPrice) * lotSize))
        ELSE Null

(***************************************************************************)
(* The minimum investment alone: one drawn listing, put through             *)
(* extractPriceFromRange and the minInvestment expression.                  *)
(***************************************************************************)
\* price-range cells, each with the last number it holds (in hundredths,
\* Null if it holds no number)
PriceRanges ==
    { [text |-> << RupeeSign, "9", "5", " ", "-", " ", RupeeSign, "1", "0", "0" >>,
       upper |-> Some(10000)],
      [text |-> << "9", "5", " ", "-", " ", "1", "0", "0" >>,
       upper |-> Some(10000)],
      [text |-> << "9", "5", " ", "t", "o", " ", "1", "0", "0" >>,
       upper |-> Some(10000)],
      [text |-> << RupeeSign, "1", ",", "2", "5", "0" >>,
       upper |-> Some(125000)],
      [text |-> << RupeeSign, " ", "9", "5", ".", "5", "0" >>,
       upper |-> Some(9550)],
      [text |-> << "T", "B", "A" >>,
       upper |-> Null],
      [text |-> << RupeeSign, "0" >>,
       upper |-> Some(0)],
      [text |-> << ACircumflex, LowQuote, SuperscriptOne, "9", "5", " ", "-", " ", ACircumflex, LowQuote, SuperscriptOne, "1", "0", "0" >>,
       upper |-> Some(10000)],
      [text |-> << ACircumflex, LowQuote, SuperscriptOne, "1", ",", "2", "5", "0" >>,
       upper |-> Some(125000)],
      [text |-> << ACircumflex, LowQuote, SuperscriptOne, " ", "9", "5", ".", "5", "0" >>,
       upper |-> Some(9550)],
      [text |-> << ACircumflex, LowQuote, SuperscriptOne, "0" >>,
       upper |-> Some(0)],
      [text |-> << ACircumflex, LowQuote, SuperscriptOne, "1", ",", "0", "5", ",", "0", "0", "0" >>,
       upper |-> Some(10500000)],
      [text |-> << "R", "s", ".", " ", "3", "7", "1", " ", "-", " ", "R", "s", ".", " ", "3", "9", "0", " ", "p", "e", "r", " ", "s", "h", "a", "r", "e" >>,
       upper |-> Some(39000)] }

\* lot sizes of the primary template
LotSizes == { 0, 1, 13, 150, 1200 }

\* priceRange and lotSize of a RawIpoData: the fallback template sets lotSize
\* to 0
RawPrices ==
    { [template |-> "primary", priceRange |-> p.text, upper |-> p.upper, lotSize |-> n] :
          p \in PriceRanges, n \in LotSizes }
    \cup { [template |-> "fallback", priceRange |-> p.text, upper |-> p.upper, lotSize |-> 0] :
          p \in PriceRanges }

InitInvest ==
    /\ InitRun
    /\ rowIn = NoRow
    /\ rowOut = NoOut
    /\ callIn \in { [fn |-> "minInvestment", raw |-> r] : r \in RawPrices }
    /\ callOut = NoOut

MinInvestment ==
    /\ callIn.fn = "minInvestment"
    /\ callOut = NoOut
    /\ callOut' = [done |-> TRUE,
                   upperPrice |-> extractPriceFromRange(callIn.raw.priceRange),
                   minInvestment |-> minInvestment(callIn.raw.priceRange, callIn.raw.lotSize)]
    /\ UNCHANGED << runVars, rowIn, rowOut, callIn >>

NextInvest == MinInvestment

SpecInvest == InitInvest /\ [][NextInvest]_vars

\* C20: minInvestment is non-null exactly when the upper bound of the price
\* range (the last number of its text) and the lot size are both known and
\* non-zero, and then displays upper bound * lot size; it is null when the
\* text holds no number or the lot size is 0, as for every row of the
\* fallback template.
C20_MinInvestmentWhenKnown ==
    (callOut.done /\ callIn.fn = "minInvestment") =>
        LET known == /\ callIn.raw.upper # Null
                     /\ ValueOf(callIn.raw.upper) # 0
                     /\ callIn.raw.lotSize # 0
        IN  /\ callOut.minInvestment # Null <=> known
            /\ known => \E sign \in { RupeeText, << RupeeSign >> } :
                            callOut.minInvestment =
                                Some(sign \o toLocaleString(ValueOf(callIn.raw.upper) * callIn.raw.lotSize))
            /\ callIn.raw.template = "fallback" => callOut.minInvestment = Null

(***************************************************************************)
(* The whole record of a listing row: the fields the row callbacks of       *)
(* scrapeMainboardIPOs add to symbol and companyName, and what rawIpos.map  *)
(* makes of the dates.                                                      *)
(***************************************************************************)
\* cells.eq(i).text().trim() for a row of row.cells cells: the text of cell i
\* (0-based, i >= 1), the empty string if the row has no such cell
cellText(row, i) == IF i < row.cells THEN trim(row.texts[i]) ELSE << >>

TbaMarker == << "T", "B", "A" >>

\* cell || "TBA"
orTba(cell) == IF cell = << >> THEN TbaMarker ELSE cell

\* .replace(/[^0-9]/g, "")
RECURSIVE keepDigits(_)
keepDigits(s) ==
    IF s = << >> THEN << >>
    ELSE IF Head(s) \in Digit THEN << Head(s) >> \o keepDigits(Tail(s))
    ELSE keepDigits(Tail(s))

\* parseInt(lotSizeCell.replace(/[^0-9]/g, "")) || 0
lotSizeOf(lotSizeCell) == DigitsValue(keepDigits(lotSizeCell))

\* the primary row callback that lets go of a row whose open date is not
\* parsed
primaryListingStrict(row, clock, offset) ==
    LET datesCell == cellText(row, 1)
        openDate == parseDate(openDateStr(datesCell))
        closeDate == parseDate(closeDateStr(datesCell))
    IN  IF primaryRow(row) = << >> \/ openDate = Null THEN << >>
        ELSE << [symbol |-> primaryRow(row)[1].raw.symbol,
                 companyName |-> primaryRow(row)[1].raw.companyName,
                 openDate |-> openDateStr(datesCell),
                 closeDate |-> closeDateStr(datesCell),
                 priceRange |-> orTba(cellText(row, 2)),
                 lotSize |-> lotSizeOf(cellText(row, 4)),
                 issueSize |-> orTba(cellText(row, 3)),
                 status |-> determineStatus(openDate, closeDate, clock, offset)] >>

\* the primary row callback with every field of the record it pushes, at the
\* instant clock in the zone offset
primaryListing(row, clock, offset) ==
    LET datesCell == cellText(row, 1)
        openDate == parseDate(openDateStr(datesCell))
        closeDate == parseDate(closeDateStr(datesCell))
    IN  IF primaryRow(row) = << >> THEN << >>
        ELSE << [symbol |-> primaryRow(row)[1].raw.symbol,
                 companyName |-> primaryRow(row)[1].raw.companyName,
                 openDate |-> openDateStr(datesCell),
                 closeDate |-> closeDateStr(datesCell),
                 priceRange |-> orTba(cellText(row, 2)),
                 lotSize |-> lotSizeOf(cellText(row, 4)),
                 issueSize |-> orTba(cellText(row, 3)),
                 status |-> determineStatus(openDate, closeDate, clock, offset)] >>

\* the fallback row callback with every field of the record it pushes
fallbackListing(row, clock, offset) ==
    LET openText == cellText(row, 1)
        closeText == cellText(row, 2)
    IN  IF fallbackRow(row) = << >> THEN << >>
        ELSE << [symbol |-> fallbackRow(row)[1].raw.symbol,
                 companyName |-> fallbackRow(row)[1].raw.companyName,
                 openDate |-> openText,
                 closeDate |-> closeText,
                 priceRange |-> orTba(cellText(row, 3)),
                 lotSize |-> 0,
                 issueSize |-> orTba(cellText(row, 4)),
                 status |-> determineStatus(parseDate(openText), parseDate(closeText),
                                            clock, offset)] >>

\* expectedDate and status of the record rawIpos.map makes of a listing
datedRecord(raw) ==
    [symbol |-> raw.symbol, expectedDate |-> parseDate(raw.openDate), status |-> raw.status]

(***************************************************************************)
(* One listing row alone: a drawn row, put through both row callbacks and   *)
(* through the date fields of rawIpos.map.                                  *)
(***************************************************************************)
ListingNames ==
    { << "Z", "i", "n", "k", "a", " ", "L", "o", "g", "i", "s", "t", "i", "c", "s", " ", "L", "t", "d" >>,
      << "A", "b", " ", "L", "t", "d" >>,
      << "C", "o", "m", "p", "a", "n", "y", " ", "N", "a", "m", "e" >> }

\* texts of the cells 1 to 4 of a row
CellTexts1 ==
    { << "1", "2", " ", "J", "a", "n", " ", "2", "0", "2", "4", " ", "-", " ", "1", "5", " ", "J", "a", "n", " ", "2", "0", "2", "4" >>,
      << "1", "2", " ", "J", "a", "n", " ", "2", "0", "2", "4" >>,
      << "5", " ", "O", "c", "t", " ", "2", "0", "2", "4", " ", "-", " ", "9", " ", "N", "o", "v", " ", "2", "0", "2", "4" >>,
      << "T", "B", "A" >>,
      << >> }

CellTexts2 ==
    { << "1", "5", " ", "J", "a", "n", " ", "2", "0", "2", "4" >>,
      << "9", "5", " ", "-", " ", "1", "0", "0" >>,
      << >> }

CellTexts3 ==
    { << "5", "0", "0", " ", "C", "r" >>,
      << >> }

CellTexts4 ==
    { << "1", ",", "2", "0", "0", " ", "S", "h", "a", "r", "e", "s" >>,
      << "L", "o", "t" >>,
      << >> }

\* the clock: noon of 2024-01-10, 2024-01-13 and 2024-01-20
ListingClocks == { 24 * daysFromCivil(2024, 1, d) + 12 : d \in { 10, 13, 20 } }

InitListing ==
    /\ InitRun
    /\ rowIn = NoRow
    /\ rowOut = NoOut
    /\ callIn \in [fn : { "listing" },
                   row : [cells : CellCounts, name : ListingNames,
                          texts : CellTexts1 \X CellTexts2 \X CellTexts3 \X CellTexts4],
                   clock : ListingClocks, offset : ZoneOffsets]
    /\ callOut = NoOut

\* the records a sequence of at most one listing is mapped to
datedRecords(listing) == [i \in 1 .. Len(listing) |-> datedRecord(listing[i])]

\* the row callbacks of the two templates on the row
ExtractListing ==
    /\ callIn.fn = "listing"
    /\ callOut = NoOut
    /\ callOut' = [done |-> FALSE,
                   primary |-> primaryListing(callIn.row, callIn.clock, callIn.offset),
                   fallback |-> fallbackListing(callIn.row, callIn.clock, callIn.offset)]
    /\ UNCHANGED << runVars, rowIn, rowOut, callIn >>

\* rawIpos.map on the listings of each template
MapListing ==
    /\ callIn.fn = "listing"
    /\ callOut # NoOut
    /\ ~callOut.done
    /\ callOut' = [done |-> TRUE,
                   primary |-> callOut.primary,
                   fallback |-> callOut.fallback,
                   primaryRecord |-> datedRecords(callOut.primary),
                   fallbackRecord |-> datedRecords(callOut.fallback)]
    /\ UNCHANGED << runVars, rowIn, rowOut, callIn >>

NextListing == ExtractListing \/ MapListing

SpecListing == InitListing /\ [][NextListing]_vars

Listed == callOut.done /\ callIn.fn = "listing"

\* the structural checks of a template with at least minCells cells and the
\* symbol sym: enough cells, a name that is not too short or header-like, a
\* symbol of at least 3 characters
PassesChecks(row, minCells, sym) ==
    /\ row.cells >= minCells
    /\ Len(trim(row.name)) >= 3
    /\ ~headerLike(trim(row.name))
    /\ Len(sym) >= 3

HasDigit(s) == \E i \in 1 .. Len(s) : s[i] \in Digit

\* the sentinels of an emitted listing whose price, issue-size and lot-size
\* cells had the texts price, issue and lot ("" for an absent cell)
Sentinels(listing, price, issue, lot) ==
    /\ parseDate(listing.openDate) = Null => listing.status = "upcoming"
    /\ price = << >> => listing.priceRange = TbaMarker
    /\ issue = << >> => listing.issueSize = TbaMarker
    /\ ~HasDigit(lot) => listing.lotSize = 0
    /\ listing.lotSize \in Nat

\* the text of cell i of the row as the page holds it, "" if it is absent
CellOrEmpty(row, i) == IF i < row.cells THEN trim(row.texts[i]) ELSE << >>

\* C21: a parse-miss never drops a row: a row that passes the structural
\* checks of a template is emitted by it, with status "upcoming" when its open
\* date is unparseable, priceRange "TBA" when the price cell is empty,
\* issueSize "TBA" when the issue-size cell is empty or absent and lotSize 0
\* when the lot-size cell has no digits; lotSize is a non-negative integer.
C21_ParseMissKeepsRow ==
    Listed =>
        /\ PassesChecks(callIn.row, 3, primarySymbol(trim(callIn.row.name))) =>
               /\ Len(callOut.primary) = 1
               /\ Sentinels(callOut.primary[1], CellOrEmpty(callIn.row, 2),
                            CellOrEmpty(callIn.row, 3), CellOrEmpty(callIn.row, 4))
        /\ PassesChecks(callIn.row, 4, fallbackSymbol(trim(callIn.row.name))) =>
               /\ Len(callOut.fallback) = 1
               /\ Sentinels(callOut.fallback[1], CellOrEmpty(callIn.row, 3),
                            CellOrEmpty(callIn.row, 4), << >>)

\* a row of three cells with an unparseable date cell and an empty price cell
C21_Witness ==
    /\ Listed
    /\ callIn.row.cells = 3
    /\ Len(callOut.primary) = 1
    /\ parseDate(callOut.primary[1].openDate) = Null
    /\ callOut.primary[1].status = "upcoming"
    /\ callOut.primary[1].priceRange = TbaMarker
    /\ callOut.primary[1].issueSize = TbaMarker
    /\ callOut.primary[1].lotSize = 0

\* C27: in every record made of a listing, status and expectedDate are
\* consistent: if expectedDate is null then status is "upcoming", so a record
\* with status "open" or "closed" has an expectedDate.
C27_StatusNeedsExpectedDate ==
    Listed =>
        /\ \A i \in 1 .. Len(callOut.primaryRecord) :
               /\ callOut.primaryRecord[i].expectedDate = Null =>
                      callOut.primaryRecord[i].status = "upcoming"
               /\ callOut.primaryRecord[i].status \in { "open", "closed" } =>
                      callOut.primaryRecord[i].expectedDate # Null
        /\ \A i \in 1 .. Len(callOut.fallbackRecord) :
               /\ callOut.fallbackRecord[i].expectedDate = Null =>
                      callOut.fallbackRecord[i].status = "upcoming"
               /\ callOut.fallbackRecord[i].status \in { "open", "closed" } =>
                      callOut.fallbackRecord[i].expectedDate # Null

\* a fallback row whose open date is not parsed while its close date lies in
\* the past
C27_Witness ==
    /\ Listed
    /\ Len(callOut.fallbackRecord) = 1
    /\ callOut.fallbackRecord[1].expectedDate = Null
    /\ parseDate(callOut.fallback[1].closeDate) # Null
    /\ newDate(ValueOf(parseDate(callOut.fallback[1].closeDate))) < callIn.clock - 48
    /\ callOut.fallbackRecord[1].status = "upcoming"

(***************************************************************************)
(* Properties of the later claims on the pipeline run.                      *)
(***************************************************************************)
\* C22: in every interleaving of the two scrapes the records are built only
\* once scrapeMainboardIPOs and scrapeGmpData have both returned and no fetch
\* is pending, and a step of one scrape leaves the state of the other alone.
C22_JoinAfterBothSettle ==
    [][/\ (pcRun' = "resolved" /\ pcRun # "resolved") \/ transformedIpos' # transformedIpos =>
              /\ pcMain = "returned"
              /\ pcGmp = "returned"
              /\ \A u \in Urls : fetched[u] # "pending"
       /\ (pcRun # "idle" /\ (pcMain' # pcMain \/ ipos' # ipos)) =>
              UNCHANGED << pcGmp, gmpIdx, gmpData, gmpPage >>
       /\ (pcRun # "idle" /\ (pcGmp' # pcGmp \/ gmpData' # gmpData \/ gmpIdx' # gmpIdx)) =>
              UNCHANGED << pcMain, ipos, iposText >>
       /\ pcRun = "resolved" => UNCHANGED << ipos, gmpData, transformedIpos >>]_vars

\* both scrapes took two fetches, interleaved, before the join
C22_Witness ==
    /\ pcRun = "resolved"
    /\ Len(transformedIpos) > 0
    /\ gmpData # << >>
    /\ Len(requests) = 4
    /\ requests[3] = gmpUrls[2]
    /\ requests[4] = IPO_LIST_2025

(***************************************************************************)
(* The risk level of a score and the colour band of the score ring.  A      *)
(* score is held in hundredths: 7.5 is 750.                                 *)
(***************************************************************************)
\* riskLevel of the scoring engine for an overall score: 7.5 and more is
\* conservative, from 6 down to 4 is moderate as is the band from 6 to 7.5,
\* below 4 is aggressive
riskLevel(overallScore) ==
    IF overallScore >= 750 THEN "conservative"
    ELSE IF overallScore >= 600 THEN "moderate"
    ELSE IF overallScore >= 400 THEN "moderate"
    ELSE "aggressive"

\* getScoreColor with the first threshold excluded
getScoreColorStrict(s) ==
    IF s > 750 THEN "text-emerald-400"
    ELSE IF s >= 600 THEN "text-blue-400"
    ELSE IF s >= 400 THEN "text-amber-400"
    ELSE "text-red-400"

\* getScoreColor of ScoreRing: the text colour of the band of a score
getScoreColor(s) ==
    IF s >= 750 THEN "text-emerald-400"
    ELSE IF s >= 600 THEN "text-blue-400"
    ELSE IF s >= 400 THEN "text-amber-400"
    ELSE "text-red-400"

(***************************************************************************)
(* One score alone: its risk level and its colour band.                     *)
(***************************************************************************)
\* overall scores from 0 to 10, in hundredths
Scores == 0 .. 1000

InitRisk ==
    /\ InitRun
    /\ rowIn = NoRow
    /\ rowOut = NoOut
    /\ callIn \in [fn : { "riskLevel" }, overallScore : Scores]
    /\ callOut = NoOut

RiskOfScore ==
    /\ callIn.fn = "riskLevel"
    /\ callOut = NoOut
    /\ callOut' = [done |-> TRUE,
                   riskLevel |-> riskLevel(callIn.overallScore),
                   color |-> getScoreColor(callIn.overallScore)]
    /\ UNCHANGED << runVars, rowIn, rowOut, callIn >>

NextRisk == RiskOfScore

SpecRisk == InitRisk /\ [][NextRisk]_vars

clamp(x) == IF x < 0 THEN 0 ELSE IF x > 1000 THEN 1000 ELSE x

RECURSIVE sum(_)
sum(xs) == IF xs = << >> THEN 0 ELSE Head(xs) + sum(Tail(xs))

\* the mean of the contributions that are present, Null when none is
meanOfPresent(parts) ==
    LET present == SelectSeq(parts, LAMBDA p : p # Null)
        values == [i \in 1 .. Len(present) |-> ValueOf(present[i])]
    IN  IF present = << >> THEN Null ELSE Some(sum(values) \div Len(values))

\* revenueGrowth of 30% or more has full marks, scaling down to 0; leverage
\* is inverted
fundamentalsScore(ipo) ==
    meanOfPresent(<<
        IF ipo.revenueGrowth = Null THEN Null
        ELSE Some(clamp((ValueOf(ipo.revenueGrowth) * 1000) \div 30)),
        IF ipo.debtToEquity = Null THEN Null
        ELSE Some(clamp(1000 - ValueOf(ipo.debtToEquity) * 40)) >>)

\* peRatio against sectorPeMedian: below the median is rewarded, a premium
\* is penalised
valuationScore(ipo) ==
    IF ipo.peRatio = Null \/ ipo.sectorPeMedian = Null THEN Null
    ELSE Some(clamp(1500 - (ValueOf(ipo.peRatio) * 500) \div ValueOf(ipo.sectorPeMedian)))

\* a high offer-for-sale fraction is penalised
governanceScore(ipo) ==
    IF ipo.ofsRatio = Null THEN Null
    ELSE Some(clamp(1000 - ValueOf(ipo.ofsRatio) * 100))

\* the average of the sub-scores that are not null, equally weighted
overallScore(ipo) ==
    meanOfPresent(<< fundamentalsScore(ipo), valuationScore(ipo), governanceScore(ipo) >>)

\* the checks of the red flags, in their fixed order
redFlags(ipo) ==
    (IF ipo.ofsRatio # Null /\ ValueOf(ipo.ofsRatio) > 5
     THEN << "High OFS ratio" >> ELSE << >>)
    \o (IF ipo.peRatio # Null /\ ipo.sectorPeMedian # Null
           /\ 2 * ValueOf(ipo.peRatio) > 3 * ValueOf(ipo.sectorPeMedian)
        THEN << "Expensive against sector median" >> ELSE << >>)
    \o (IF ipo.debtToEquity # Null /\ ValueOf(ipo.debtToEquity) > 10
        THEN << "High debt to equity" >> ELSE << >>)

\* the checks of the pros, in their fixed order
pros(ipo) ==
    (IF ipo.revenueGrowth # Null /\ ValueOf(ipo.revenueGrowth) >= 30
     THEN << "Strong revenue growth" >> ELSE << >>)
    \o (IF ipo.peRatio # Null /\ ipo.sectorPeMedian # Null
           /\ ValueOf(ipo.peRatio) < ValueOf(ipo.sectorPeMedian)
        THEN << "Attractive valuation" >> ELSE << >>)
    \o (IF ipo.debtToEquity # Null /\ ValueOf(ipo.debtToEquity) < 5
        THEN << "Low leverage" >> ELSE << >>)

RECURSIVE reverse(_)
reverse(xs) == IF xs = << >> THEN << >> ELSE Append(reverse(Tail(xs)), Head(xs))

\* calculateIpoScore keeping state between calls: a call after an earlier
\* one lists the red flags in the opposite order
calculateIpoScoreStateful(ipo) ==
    [fundamentalsScore |-> fundamentalsScore(ipo),
     valuationScore |-> valuationScore(ipo),
     governanceScore |-> governanceScore(ipo),
     overallScore |-> overallScore(ipo),
     riskLevel |-> IF overallScore(ipo) = Null THEN Null
                   ELSE Some(riskLevel(ValueOf(overallScore(ipo)))),
     redFlags |-> IF callOut = NoOut THEN redFlags(ipo) ELSE reverse(redFlags(ipo)),
     pros |-> pros(ipo)]

\* calculateIpoScore: the three sub-scores, the overall score, the risk
\* level and the lists of red flags and pros of a bundle
calculateIpoScore(ipo) ==
    [fundamentalsScore |-> fundamentalsScore(ipo),
     valuationScore |-> valuationScore(ipo),
     governanceScore |-> governanceScore(ipo),
     overallScore |-> overallScore(ipo),
     riskLevel |-> IF overallScore(ipo) = Null THEN Null
                   ELSE Some(riskLevel(ValueOf(overallScore(ipo)))),
     redFlags |-> redFlags(ipo),
     pros |-> pros(ipo)]

(***************************************************************************)
(* Two calls of calculateIpoScore with one bundle, the second some hours    *)
(* after the first.                                                         *)
(***************************************************************************)
Bundles ==
    [revenueGrowth : { Null, Some(5), Some(35) },
     debtToEquity : { Null, Some(3), Some(25) },
     peRatio : { Null, Some(15), Some(60) },
     sectorPeMedian : { Null, Some(25) },
     ofsRatio : { Null, Some(1), Some(8) }]

HoursLater == { 1, 24 }

InitScore ==
    /\ InitRun
    /\ rowIn = NoRow
    /\ rowOut = NoOut
    /\ callIn \in [fn : { "calculateIpoScore" }, ipo : Bundles, clock : ListingClocks]
    /\ callOut = NoOut

ScoreFirst ==
    /\ callIn.fn = "calculateIpoScore"
    /\ callOut = NoOut
    /\ callOut' = [done |-> FALSE, calls |-> 1, at |-> callIn.clock,
                   first |-> calculateIpoScore(callIn.ipo)]
    /\ UNCHANGED << runVars, rowIn, rowOut, callIn >>

ScoreAgain ==
    /\ callIn.fn = "calculateIpoScore"
    /\ callOut # NoOut
    /\ ~callOut.done
    /\ \E h \in HoursLater :
           callOut' = [done |-> TRUE, calls |-> 2, at |-> callOut.at + h,
                       first |-> callOut.first,
                       second |-> calculateIpoScore(callIn.ipo)]
    /\ UNCHANGED << runVars, rowIn, rowOut, callIn >>

NextScore == ScoreFirst \/ ScoreAgain

SpecScore == InitScore /\ [][NextScore]_vars

FundSteps == 4

FundDraws == 0 .. (FundSteps - 1)

\* Math.round(Math.random() * span + base)
roundedShare(span, base, k) == mathRound(k * span + base * FundSteps, FundSteps)

\* the names of the categories with the percentages of the first four, the
\* fifth being Math.max(5, 100 - totalBeforeGeneral)
fundCategories(draw) ==
    LET firstFour == << roundedShare(25, 10, draw[1]), roundedShare(30, 15, draw[2]),
                        roundedShare(20, 10, draw[3]), roundedShare(15, 5, draw[4]) >>
        totalBeforeGeneral == sum(firstFour)
        general == IF 100 - totalBeforeGeneral > 5 THEN 100 - totalBeforeGeneral ELSE 5
    IN  << [name |-> "Debt Repayment", percentage |-> firstFour[1]],
           [name |-> "Capital Expenditure", percentage |-> firstFour[2]],
           [name |-> "Working Capital", percentage |-> firstFour[3]],
           [name |-> "Acquisitions", percentage |-> firstFour[4]],
           [name |-> "General Corporate Purposes", percentage |-> general] >>

\* Math.round((Math.random() * 1500 + 200) * 100) / 100, in hundredths
totalIssueSize(k) == mathRound(k * 150000 + 20000 * FundSteps, FundSteps)

\* generateFundUtilization(ipoId): one entry for each category
generateFundUtilization(ipoId, draw) ==
    LET categories == fundCategories(draw)
    IN  [i \in 1 .. Len(categories) |->
            [ipoId |-> ipoId,
             category |-> categories[i].name,
             plannedAmount |-> mathRound(totalIssueSize(draw[5]) * categories[i].percentage, 100),
             plannedPercentage |-> categories[i].percentage]]

InitFund ==
    /\ InitRun
    /\ rowIn = NoRow
    /\ rowOut = NoOut
    /\ callIn \in [fn : { "generateFundUtilization" }, ipoId : { 1 },
                   draw : [1 .. 5 -> FundDraws]]
    /\ callOut = NoOut

GenerateFundUtilization ==
    /\ callIn.fn = "generateFundUtilization"
    /\ callOut = NoOut
    /\ callOut' = [done |-> TRUE,
                   result |-> generateFundUtilization(callIn.ipoId, callIn.draw)]
    /\ UNCHANGED << runVars, rowIn, rowOut, callIn >>

NextFund == GenerateFundUtilization

SpecFund == InitFund /\ [][NextFund]_vars

\* C25: generateFundUtilization returns exactly five categories whose
\* plannedPercentage values sum to 100, whatever the draws of the first four.
C25_FivePercentagesSumToHundred ==
    (callOut.done /\ callIn.fn = "generateFundUtilization") =>
        /\ Len(callOut.result) = 5
        /\ sum([i \in 1 .. Len(callOut.result) |-> callOut.result[i].plannedPercentage]) = 100

(***************************************************************************)
(* determineStatus of one listing again and again while the clock of the    *)
(* process advances, the zone of the process being the same.                *)
(***************************************************************************)
InitAdvance ==
    /\ InitRun
    /\ rowIn = NoRow
    /\ rowOut = NoOut
    /\ callIn \in [fn : { "advance" }, openDate : OptionalDates,
                   closeDate : OptionalDates, clock : Clocks, offset : ZoneOffsets]
    /\ callOut = NoOut

\* determineStatus with the open interval tested first and without its end
DetermineLaterOpenFirst ==
    /\ callIn.fn = "advance"
    /\ callOut # NoOut
    /\ \E later \in Clocks :
           /\ later > callOut.clock
           /\ callOut' =
                  [done |-> TRUE, clock |-> later, previous |-> callOut.result,
                   result |->
                       IF callIn.openDate = Null THEN "upcoming"
                       ELSE IF localMidnight(later, callIn.offset) >= newDate(ValueOf(callIn.openDate))
                            THEN "open"
                       ELSE IF callIn.closeDate # Null
                               /\ localMidnight(later, callIn.offset) > newDate(ValueOf(callIn.closeDate))
                            THEN "closed"
                       ELSE "upcoming"]
    /\ UNCHANGED << runVars, rowIn, rowOut, callIn >>

DetermineNow ==
    /\ callIn.fn = "advance"
    /\ callOut = NoOut
    /\ callOut' = [done |-> FALSE, clock |-> callIn.clock,
                   result |-> determineStatus(callIn.openDate, callIn.closeDate,
                                              callIn.clock, callIn.offset)]
    /\ UNCHANGED << runVars, rowIn, rowOut, callIn >>

DetermineLater ==
    /\ callIn.fn = "advance"
    /\ callOut # NoOut
    /\ \E later \in Clocks :
           /\ later > callOut.clock
           /\ callOut' = [done |-> TRUE, clock |-> later, previous |-> callOut.result,
                          result |-> determineStatus(callIn.openDate, callIn.closeDate,
                                                     later, callIn.offset)]
    /\ UNCHANGED << runVars, rowIn, rowOut, callIn >>

NextAdvance == DetermineNow \/ DetermineLater

SpecAdvance == InitAdvance /\ [][NextAdvance]_vars

StatusRank(status) ==
    CASE status = "upcoming" -> 0
      [] status = "open" -> 1
      [] status = "closed" -> 2

\* C26: for fixed open and close dates the status of a later moment is never
\* before the status of an earlier moment in the order upcoming, open,
\* closed: after "open" it is not "upcoming" again, after "closed" it is
\* "closed", also when the close date is before the open date or is unknown.
C26_StatusNeverMovesBack ==
    (callOut.done /\ callIn.fn = "advance") =>
        /\ StatusRank(callOut.result) >= StatusRank(callOut.previous)
        /\ callOut.previous = "closed" => callOut.result = "closed"
        /\ callOut.previous = "open" => callOut.result # "upcoming"

\* a close date before the open date: "closed" on reaching the open date,
\* and "closed" again later
C26_Witness ==
    /\ callOut.done
    /\ callIn.fn = "advance"
    /\ callIn.openDate # Null
    /\ callIn.closeDate # Null
    /\ newDate(ValueOf(callIn.closeDate)) < newDate(ValueOf(callIn.openDate))
    /\ localMidnight(callOut.clock, callIn.offset) > newDate(ValueOf(callIn.openDate))
    /\ callOut.previous = "closed"
    /\ callOut.result = "closed"

(***************************************************************************)
(* The storage of IPOs and the two callers of the scraper in the routes.    *)
(* A stored record is its symbol and where it came from: 0 for a record     *)
(* that was there before, or the position of a scraped record in its batch. *)
(* The table holds at most one record for a symbol.                         *)
(***************************************************************************)
SyncSymbols == { "AAA", "BBB", "CCC" }

\* results of scrapeAndTransformIPOs: the symbols of the records, in order
Batches == UNION { [1 .. n -> SyncSymbols] : n \in 0 .. MaxRows }

\* Null stands for a scrape that throws
ScrapeOutcomes == { Null } \cup { Some(b) : b \in Batches }

Tables == { { [symbol |-> s, from |-> 0] : s \in held } : held \in SUBSET SyncSymbols }

\* storage.getIpoBySymbol: the record with the symbol, if any
getIpoBySymbol(table, symbol) == { r \in table : r.symbol = symbol }

\* storage.upsertIpo: the record replaces the one with its symbol, or is added
upsertIpo(table, ipo) == { r \in table : r.symbol # ipo.symbol } \cup { ipo }

\* storage.createIpo: the record is added; a second record with a symbol is
\* refused by the table (Null stands for the throw)
createIpo(table, ipo) ==
    IF getIpoBySymbol(table, ipo.symbol) # { } THEN Null ELSE Some(table \cup { ipo })

InitSync ==
    /\ InitRun
    /\ rowIn = NoRow
    /\ rowOut = NoOut
    /\ callIn \in [fn : { "sync" }, scraped : ScrapeOutcomes, stored : Tables]
    /\ callOut = NoOut

\* the scrape of the route: its records start the loop, a throw is answered
\* with status 500
SyncScrape ==
    /\ callIn.fn = "sync"
    /\ callOut = NoOut
    /\ callOut' = [done |-> callIn.scraped = Null, next |-> 1, created |-> 0, updated |-> 0,
                   table |-> callIn.stored, upserts |-> << >>,
                   response |-> IF callIn.scraped = Null
                                THEN Some([status |-> 500, success |-> FALSE])
                                ELSE Null]
    /\ UNCHANGED << runVars, rowIn, rowOut, callIn >>

\* one pass of the loop with the lookup after the upsert
SyncUpsertThenLookup ==
    /\ callIn.fn = "sync"
    /\ callOut # NoOut
    /\ ~callOut.done
    /\ callOut.next <= Len(ValueOf(callIn.scraped))
    /\ LET ipo == [symbol |-> ValueOf(callIn.scraped)[callOut.next], from |-> callOut.next]
           written == upsertIpo(callOut.table, ipo)
           existing == getIpoBySymbol(written, ipo.symbol)
       IN  callOut' = [callOut EXCEPT
                          !.table = written,
                          !.upserts = Append(@, callOut.next),
                          !.updated = IF existing # { } THEN @ + 1 ELSE @,
                          !.created = IF existing # { } THEN @ ELSE @ + 1,
                          !.next = @ + 1]
    /\ UNCHANGED << runVars, rowIn, rowOut, callIn >>

\* one pass of the loop: getIpoBySymbol, upsertIpo, then one of the counters
SyncUpsert ==
    /\ callIn.fn = "sync"
    /\ callOut # NoOut
    /\ ~callOut.done
    /\ callOut.next <= Len(ValueOf(callIn.scraped))
    /\ LET ipo == [symbol |-> ValueOf(callIn.scraped)[callOut.next], from |-> callOut.next]
           existing == getIpoBySymbol(callOut.table, ipo.symbol)
       IN  callOut' = [callOut EXCEPT
                          !.table = upsertIpo(callOut.table, ipo),
                          !.upserts = Append(@, callOut.next),
                          !.updated = IF existing # { } THEN @ + 1 ELSE @,
                          !.created = IF existing # { } THEN @ ELSE @ + 1,
                          !.next = @ + 1]
    /\ UNCHANGED << runVars, rowIn, rowOut, callIn >>

\* res.json after the loop
SyncRespond ==
    /\ callIn.fn = "sync"
    /\ callOut # NoOut
    /\ ~callOut.done
    /\ callOut.next > Len(ValueOf(callIn.scraped))
    /\ callOut' = [callOut EXCEPT
                      !.done = TRUE,
                      !.response = Some([status |-> 200, success |-> TRUE,
                                         created |-> callOut.created,
                                         updated |-> callOut.updated,
                                         total |-> Len(ValueOf(callIn.scraped))])]
    /\ UNCHANGED << runVars, rowIn, rowOut, callIn >>

NextSync == SyncScrape \/ SyncUpsert \/ SyncRespond

SpecSync == InitSync /\ [][NextSync]_vars

\* the symbols in storage just before the upsert of the record at a position:
\* those stored before the run and those of the records ahead of it
HeldBefore(position) ==
    { r.symbol : r \in callIn.stored }
        \cup { ValueOf(callIn.scraped)[j] : j \in 1 .. (position - 1) }

\* C28: the admin sync upserts every scraped record once, in scrape order;
\* a record counts as updated exactly when its symbol was in storage just
\* before its own upsert, otherwise as created; after the run
\* created + updated = total = the number of scraped records.
C28_SyncCounts ==
    (callIn.fn = "sync" /\ callOut # NoOut /\ callIn.scraped # Null) =>
        LET batch == ValueOf(callIn.scraped)
            upserted == 1 .. (callOut.next - 1)
        IN  /\ callOut.upserts = [j \in upserted |-> j]
            /\ callOut.updated = Cardinality({ j \in upserted : batch[j] \in HeldBefore(j) })
            /\ callOut.created = Cardinality({ j \in upserted : batch[j] \notin HeldBefore(j) })
            /\ callOut.done =>
                   /\ callOut.next = Len(batch) + 1
                   /\ ValueOf(callOut.response).status = 200
                   /\ ValueOf(callOut.response).total = Len(batch)
                   /\ ValueOf(callOut.response).created + ValueOf(callOut.response).updated = Len(batch)
                   /\ ValueOf(callOut.response).created = callOut.created
                   /\ ValueOf(callOut.response).updated = callOut.updated

\* a symbol twice in one batch against empty storage: once created, once
\* updated
C28_Witness ==
    /\ callIn.fn = "sync"
    /\ callOut.done
    /\ callIn.stored = { }
    /\ callIn.scraped = Some(<< "AAA", "AAA" >>)
    /\ ValueOf(callOut.response).created = 1
    /\ ValueOf(callOut.response).updated = 1
    /\ ValueOf(callOut.response).total = 2
    /\ callOut.table = { [symbol |-> "AAA", from |-> 2] }

(***************************************************************************)
(* autoSyncOnStartup at the end of registerRoutes.                          *)
(***************************************************************************)
InitStartup ==
    /\ InitRun
    /\ rowIn = NoRow
    /\ rowOut = NoOut
    /\ callIn \in [fn : { "autoSyncOnStartup" }, scraped : ScrapeOutcomes, stored : Tables]
    /\ callOut = NoOut

\* autoSyncOnStartup without the test of an empty database
StartupScrapeAlways ==
    /\ callIn.fn = "autoSyncOnStartup"
    /\ callOut = NoOut
    /\ callOut' =
           [done |-> callIn.scraped \in { Null, Some(<< >>) },
            scraperCalled |-> TRUE, caught |-> callIn.scraped = Null, raised |-> FALSE,
            next |-> 1, table |-> callIn.stored]
    /\ UNCHANGED << runVars, rowIn, rowOut, callIn >>

\* getIpos and the test of its length; on an empty database the scrape: a
\* throw is caught, no records are logged, records start the loop
StartupScrape ==
    /\ callIn.fn = "autoSyncOnStartup"
    /\ callOut = NoOut
    /\ callOut' =
           IF callIn.stored # { }
           THEN [done |-> TRUE, scraperCalled |-> FALSE, caught |-> FALSE, raised |-> FALSE,
                 next |-> 1, table |-> callIn.stored]
           ELSE [done |-> callIn.scraped \in { Null, Some(<< >>) },
                 scraperCalled |-> TRUE, caught |-> callIn.scraped = Null, raised |-> FALSE,
                 next |-> 1, table |-> callIn.stored]
    /\ UNCHANGED << runVars, rowIn, rowOut, callIn >>

\* one pass of the loop: createIpo; its throw is caught and ends the loop
StartupCreate ==
    /\ callIn.fn = "autoSyncOnStartup"
    /\ callOut # NoOut
    /\ ~callOut.done
    /\ callOut.next <= Len(ValueOf(callIn.scraped))
    /\ LET ipo == [symbol |-> ValueOf(callIn.scraped)[callOut.next], from |-> callOut.next]
           written == createIpo(callOut.table, ipo)
       IN  callOut' = IF written = Null
                      THEN [callOut EXCEPT !.done = TRUE, !.caught = TRUE]
                      ELSE [callOut EXCEPT !.table = ValueOf(written), !.next = @ + 1]
    /\ UNCHANGED << runVars, rowIn, rowOut, callIn >>

\* the end of the loop
StartupReturn ==
    /\ callIn.fn = "autoSyncOnStartup"
    /\ callOut # NoOut
    /\ ~callOut.done
    /\ callOut.next > Len(ValueOf(callIn.scraped))
    /\ callOut' = [callOut EXCEPT !.done = TRUE]
    /\ UNCHANGED << runVars, rowIn, rowOut, callIn >>

NextStartup == StartupScrape \/ StartupCreate \/ StartupReturn

SpecStartup == InitStartup /\ [][NextStartup]_vars

\* C29: autoSyncOnStartup calls the scraper and writes to storage only if
\* storage holds no IPO at startup; with a non-empty storage nothing is
\* fetched or written; when the scrape throws or returns no records storage
\* is left as it was, and nothing is raised to registerRoutes.
C29_StartupOnlyOnEmpty ==
    (callIn.fn = "autoSyncOnStartup" /\ callOut # NoOut) =>
        /\ callOut.scraperCalled => callIn.stored = { }
        /\ callOut.table # callIn.stored => callIn.stored = { }
        /\ callIn.stored # { } =>
               /\ callOut.done
               /\ ~callOut.scraperCalled
               /\ callOut.table = callIn.stored
        /\ callIn.scraped \in { Null, Some(<< >>) } =>
               /\ callOut.done
               /\ callOut.table = callIn.stored
        /\ ~callOut.raised

\* an empty database and a scrape that throws: caught, nothing written
C29_Witness ==
    /\ callIn.fn = "autoSyncOnStartup"
    /\ callOut.done
    /\ callIn.stored = { }
    /\ callIn.scraped = Null
    /\ callOut.scraperCalled
    /\ callOut.caught
    /\ callOut.table = { }
    /\ ~callOut.raised

(***************************************************************************)
(* detectSector of a company name that is one keyword of its lists.         *)
(***************************************************************************)
SectorKeywords ==
    UNION { { sectorRules[i].keywords[k] : k \in 1 .. Len(sectorRules[i].keywords) } :
            i \in 1 .. Len(sectorRules) }

InitKeyword ==
    /\ InitRun
    /\ rowIn = NoRow
    /\ rowOut = NoOut
    /\ callIn \in [fn : { "detectSector" }, text : SectorKeywords]
    /\ callOut = NoOut

SpecKeyword == InitKeyword /\ [][NextSector]_vars

\* C30: no keyword of detectSector is shadowed: a company name that is just
\* one keyword of a sector's list is classified into that sector.
C30_NoKeywordShadowed ==
    (callOut.done /\ callIn.fn = "detectSector") =>
        \A i \in 1 .. Len(sectorRules) :
            (\E k \in 1 .. Len(sectorRules[i].keywords) :
                 callIn.text = sectorRules[i].keywords[k])
                => callOut.result = sectorRules[i].label

====
